---- MODULE Spec2Model ----
(***************************************************************************)
(* Model of the voice-assistant relay of src/server/index.js: the          *)
(* per-connection message handler (start_recording, stop_recording,        *)
(* clear_history, unknown types), the history registry and the             *)
(* stop_recording pipeline with its five suspension points                 *)
(* (stopRecording, transcribe, chat, synthesize, playAudio).               *)
(*                                                                         *)
(* Texts are sequences of characters, so that concatenation and trim are   *)
(* computed and not assumed.  An event sent to the client is a record      *)
(* [type, state, message, text].  The events are kept per handler          *)
(* invocation, in the order the invocation sent them: reply holds what     *)
(* the latest handler that never suspends sent, runs[c][p].out what the    *)
(* p-th stop_recording handler of the current turn window sent.  A turn    *)
(* window opens when a command reaches a session with no capture and no    *)
(* pipeline, and the finished invocations are forgotten then.              *)
(*                                                                         *)
(* Two adapters are modelled on their own, each under a specification of   *)
(* its own: the gateway client of part_001 (connect, chat, handleEvent and *)
(* their timers) under SpecGateway, and stopRecording in its three         *)
(* versions (audio.js, part_002, part_003) under SpecStop.  So are the     *)
(* streaming readers of the HTTP model clients (openclaw.js, part_000 and  *)
(* the Ollama client that follows app.js in its file)                      *)
(* under SpecStream, synthesize in its three versions (tts.js and the two  *)
(* of part_001) under SpecSynth, playAudio in its three versions under     *)
(* SpecPlay, and the confirm dialog of the web client (app.js) under       *)
(* SpecConfirm; the sockets and the pending requests of the gateway client *)
(* under SpecTransport, its chat() calls made one after the other under    *)
(* SpecGatewayInTurn, and the web client (its state, taps, sockets, timers *)
(* and texts) under SpecWeb and, with a fair reconnect timer, under        *)
(* SpecWebSockets.                                                         *)
(***************************************************************************)
EXTENDS Naturals, Sequences, FiniteSets, TLC

\* ------------------------------------------------------------ constants

\* index.js:27
MAX_HISTORY == 10

\* part_001:299 (the literal of part_001:208)
maxChars == 500

\* tts.js:138
CleanLimit == 2000

\* Bounds of the model.
\* Commands one connection sends in a behaviour of Spec.
MaxCmds == 4
\* stop_recording handler invocations of one connection per turn window.
MaxRuns == 2
\* Commands one connection sends in a behaviour of SpecValid (two per turn).
MaxValidCmds == 12
\* Direct addToHistory calls in a behaviour of SpecHistory.
MaxAppends == 12
\* Frames one connection sends in a behaviour of SpecTwo.
MaxTwoCmds == 3
\* chat() calls made on the gateway client in a behaviour of SpecGateway.
MaxCalls == 2
\* chunk events the gateway sends for one chat.send.
MaxChunks == 2
\* stopRecording calls, each on a capture process of its own, in a behaviour
\* of SpecStop.
MaxStops == 2
\* reads (data events) of one response stream in a behaviour of SpecStream.
MaxReads == 3
\* Length of the longest text given to synthesize in a behaviour of SpecSynth.
MaxTextLen == 2001
\* playAudio calls, each on a file of its own, in a behaviour of SpecPlay.
MaxPlays == 2
\* confirm events the web client receives in a behaviour of SpecConfirm.
MaxConfirms == 3
\* chat() calls made one after the other in a behaviour of SpecGatewayInTurn.
MaxTurnCalls == 1
\* sockets the gateway client opens in a behaviour of SpecTransport.
MaxSockets == 3
\* requests the gateway client issues in a behaviour of SpecTransport.
MaxReqs == 3
\* taps on the web client in a behaviour of SpecWeb.
MaxTaps == 2
\* frames the web client receives in a behaviour of SpecWeb.
MaxMsgs == 4
\* sockets the web client opens in a behaviour of SpecWeb.
MaxWebSockets == 3

Clients == {"c1", "c2"}

RunIds == 1..MaxRuns

\* Texts the transcription adapter can return (stt.js returns a string).
Transcripts == {<<>>, <<" ">>, <<" ", "h", "i">>}

\* Chunk sequences the model endpoint can stream before it completes.
Streams == {<<>>, << <<"H", "e", "l">>, <<"l", "o">> >>}

Whitespace == {" ", "\t", "\n"}

\* ------------------------------------------------------------ pure helpers

RECURSIVE TrimLeft(_)
TrimLeft(s) ==
    IF s # <<>> /\ Head(s) \in Whitespace THEN TrimLeft(Tail(s)) ELSE s

RECURSIVE TrimRight(_)
TrimRight(s) ==
    IF s # <<>> /\ s[Len(s)] \in Whitespace
    THEN TrimRight(SubSeq(s, 1, Len(s) - 1))
    ELSE s

\* String.prototype.trim
Trim(s) == TrimRight(TrimLeft(s))

\* IsBlank without the trim: only the empty text counts as blank.
IsBlank_NoTrim(s) == s = <<>>

\* index.js:103  !transcript || transcript.trim().length === 0
IsBlank(s) == s = <<>> \/ Len(Trim(s)) = 0

\* ------------------------------------------------------------ events

Ev(t, st, m, tx) == [type |-> t, state |-> st, message |-> m, text |-> tx]

EvPlain(t) == Ev(t, "", "", <<>>)

EvState(st) == Ev("state", st, "", <<>>)

EvError(m) == Ev("error", "", m, <<>>)

EvText(t, tx) == Ev(t, "", "", tx)

\* ------------------------------------------------------------ history registry

HistEntry(role, content) == [role |-> role, content |-> content]

\* getHistory: the registry after the call (a missing key is created empty).
GetHistoryMap(h, c) == IF c \in DOMAIN h THEN h ELSE (c :> <<>>) @@ h

\* getHistory: the array the call returns.
GetHistory(h, c) == GetHistoryMap(h, c)[c]

\* addToHistory with unshift for push: the new entry goes to the front.
AddToHistory_Unshift(h, c, role, content) ==
    LET h1 == GetHistoryMap(h, c)
        pushed == <<HistEntry(role, content)>> \o h1[c]
        spliced == IF Len(pushed) > MAX_HISTORY
                   THEN SubSeq(pushed, Len(pushed) - MAX_HISTORY + 1, Len(pushed))
                   ELSE pushed
    IN [h1 EXCEPT ![c] = spliced]

\* addToHistory with the splice at the wrong end: the newest entries are dropped.
AddToHistory_KeepOldest(h, c, role, content) ==
    LET h1 == GetHistoryMap(h, c)
        pushed == Append(h1[c], HistEntry(role, content))
        spliced == IF Len(pushed) > MAX_HISTORY
                   THEN SubSeq(pushed, 1, MAX_HISTORY)
                   ELSE pushed
    IN [h1 EXCEPT ![c] = spliced]

\* addToHistory: push, then splice the oldest entries off past MAX_HISTORY.
AddToHistory(h, c, role, content) ==
    LET h1 == GetHistoryMap(h, c)
        pushed == Append(h1[c], HistEntry(role, content))
        spliced == IF Len(pushed) > MAX_HISTORY
                   THEN SubSeq(pushed, Len(pushed) - MAX_HISTORY + 1, Len(pushed))
                   ELSE pushed
    IN [h1 EXCEPT ![c] = spliced]

\* A delete that leaves the entry in the registry.
DeleteHistory_Keep(h, c) == h

\* conversationHistory.delete(clientId)
DeleteHistory(h, c) == [k \in (DOMAIN h) \ {c} |-> h[k]]

\* openclaw.js:63: the first message of every request
SystemMessage == HistEntry("system", <<"S">>)

\* openclaw.js:61-82: the system prompt, the last MAX_HISTORY (openclaw.js:7)
\* entries of the history given, then the message given as a user message
BuildMessages(message, history) ==
    LET k == IF Len(history) > MAX_HISTORY THEN MAX_HISTORY ELSE Len(history)
        recentHistory == [i \in 1..k |-> history[Len(history) - k + i]]
    IN <<SystemMessage>>
       \o SelectSeq(recentHistory, LAMBDA msg : msg.role \in {"user", "assistant"})
       \o <<HistEntry("user", message)>>

\* ------------------------------------------------------------ state

VARIABLES
    conns,                \* connections whose socket is OPEN
    isRecording,          \* per connection: index.js:54
    recordingProcess,     \* per connection: index.js:55, 0 is null
    conversationHistory,  \* index.js:26, a map clientId -> array
    procs,                \* capture processes spawned and not yet stopped
    nextProc,             \* the next capture handle startRecording returns
    runs,                 \* per connection: the stop_recording handlers of the turn window
    reply,                \* per connection: the events the latest non-suspending handler sent
    nCmds,                \* per connection: commands received
    appended,             \* per connection: entries appended since the last delete, in order
    cleared,              \* per connection: clear_history was handled, nothing appended since
    connected,            \* gateway client: part_001:13
    activeResponseHandler, \* gateway client: part_001:119, the call whose handler is set, 0 is null
    calls,                \* gateway client: per chat() call, its promise, timers and request
    stops,                \* audio: per stopRecording call, its process, listeners, timer and promise
    http,                 \* HTTP model client: the response stream of one chat() call and its reader
    tts,                  \* synthesize: one call, the texts it handed to an engine, its promise
    plays,                \* audio: per playAudio call, its file, its player process and its promise
    dialog,               \* web client: the confirm dialog, its click listeners, the replies sent
    transport,            \* gateway client: part_001:12-15, its sockets, pending map and timers
    web                   \* web client: app.js:6-8, 84-85, its state, sockets, timers and texts

\* The variables of the relay of index.js.
relayVars == <<conns, isRecording, recordingProcess, conversationHistory, procs, nextProc,
               runs, reply, nCmds, appended, cleared>>

\* The variables of the gateway client.
gatewayVars == <<connected, activeResponseHandler, calls>>

\* The variables of stopRecording.
captureVars == <<stops>>

\* The variables of the streaming reader of the HTTP model clients.
streamVars == <<http>>

\* The variables of synthesize.
synthVars == <<tts>>

\* The variables of playAudio.
playVars == <<plays>>

\* The variables of the confirm dialog of the web client.
dialogVars == <<dialog>>

\* The variables of the sockets and requests of the gateway client.
transportVars == <<transport>>

\* The variables of the web client.
webVars == <<web>>

\* The variables of the adapters that are modelled on their own.
adapterVars == <<gatewayVars, captureVars, streamVars, synthVars, playVars, dialogVars,
                 transportVars, webVars>>

vars == <<relayVars, adapterVars>>

\* The slot of a stop_recording handler that has not been invoked.  messages is
\* the message list of the chat call the handler awaits.
FreeRun ==
    [pc |-> "free", handle |-> 0, transcript |-> <<>>, fullResponse |-> <<>>,
     stream |-> <<>>, nChunks |-> 0, cancelled |-> FALSE, out |-> <<>>,
     messages |-> <<>>]

\* The handlers of c suspended at an await.
ActiveRuns(c) == {p \in RunIds : runs[c][p].pc \notin {"free", "done"}}

\* The handlers of c invoked in the turn window.
UsedRuns(c) == {p \in RunIds : runs[c][p].pc # "free"}

\* No capture and no pipeline: the session is Idle.
Quiescent(c) == ~isRecording[c] /\ ActiveRuns(c) = {}

\* ------------------------------------------------------------ gateway client state

\* The chat() calls made on the gateway client, in the order they are made.
Calls == 1..MaxCalls

\* The session whose pipeline makes call k and whose onChunk the call is given.
Owner(k) == IF k % 2 = 1 THEN "c1" ELSE "c2"

\* A chat() call that has not been made.  fullResponse is the closure variable
\* of part_001:152, received what the call passed to the onChunk of its caller.
\* A text is a sequence of chunks <<k, i>>: the i-th chunk the gateway produced
\* for the chat.send of call k.
FreeCall ==
    [pc |-> "free", fullResponse |-> <<>>, received |-> <<>>,
     timer45 |-> FALSE, timer60 |-> FALSE, reqPending |-> FALSE,
     sent |-> FALSE, emitted |-> 0, doneSent |-> FALSE]

\* part_001:12-15, 119: the module state before the first call.
GatewayInit ==
    /\ connected = FALSE
    /\ activeResponseHandler = 0
    /\ calls = [k \in Calls |-> FreeCall]

\* The stopRecording calls: the functions of audio.js, part_002 and part_003.
StopCalls == 1..MaxStops

Variants == {"audio.js", "part_002", "part_003"}

\* A stopRecording call that has not been made, on a handle whose capture
\* process runs.  resolved is the flag of audio.js:133, promise the state of the
\* promise the call returns, resolveCalls the number of times resolve was called.
FreeStop ==
    [pc |-> "free", impl |-> "", proc |-> "running", listening |-> FALSE,
     timer |-> FALSE, resolved |-> FALSE, sigint |-> FALSE, sigkill |-> FALSE,
     promise |-> "pending", resolveCalls |-> 0]

\* startRecording has returned a handle for every call to come.
CaptureInit == stops = [k \in StopCalls |-> FreeStop]

\* The HTTP model clients: chat of openclaw.js reads newline-delimited JSON
\* with handleStreamingResponse, chat of part_000 reads server-sent events, the
\* Ollama chat of app.js:306-389 reads newline-delimited JSON whose last object
\* has done set.
HttpClients == {"openclaw.js", "part_000", "app.js"}

\* A chat() call that has not been made.  buffer and fullResponse are the
\* variables of openclaw.js:87-88 and part_000:45-46, chunks what the call
\* passed to onChunk, result the value the promise resolved with, passed the
\* number of fragments the call had passed when the promise resolved, input what
\* the endpoint has sent, ended how the stream ended: "no", "end" or "error".
FreeHttp ==
    [pc |-> "free", impl |-> "", buffer |-> <<>>, fullResponse |-> <<>>,
     chunks |-> <<>>, result |-> <<>>, passed |-> 0, input |-> <<>>, reads |-> 0,
     ended |-> "no"]

StreamInit == http = FreeHttp

\* The versions of synthesize: Piper of tts.js, the gateway speech endpoint
\* with its fallbacks of part_001:204, the engine found on the path of
\* part_001:295.
Synthesizers == {"tts.js", "part_001:204", "part_001:295"}

\* A synthesize call that has not been made.  handed holds the texts the call
\* gave to an engine, in order, engine the engine that runs, result what the
\* promise resolved with: "path" or "null".
FreeSynth ==
    [pc |-> "free", impl |-> "", text |-> <<>>, engine |-> "", handed |-> <<>>,
     result |-> ""]

SynthInit == tts = FreeSynth

\* The playAudio calls: the functions of audio.js, part_002 and part_003.
PlayCalls == 1..MaxPlays

\* A playAudio call that has not been made.  file tells whether the audio file
\* is on disk, proc the state of the player process, unlinking that the unlink
\* of part_002:71 has been requested and has not completed.
FreePlay ==
    [pc |-> "free", impl |-> "", file |-> "present", proc |-> "none",
     promise |-> "pending", unlinking |-> FALSE]

PlayInit == plays = [k \in PlayCalls |-> FreePlay]

\* The confirm events the server sends carry the identifiers 1, 2, ...
ConfirmIds == 1..MaxConfirms

\* app.js:21-24, 130-150: the dialog before the first confirm event.  listeners
\* holds the requests whose click listeners are on the buttons, in the order
\* they were added, shown the request whose text the dialog displays (0 is
\* none), visible that the overlay is displayed, sent the confirm_response
\* frames sent.  answered notes the answer the user gave while the dialog
\* displayed the text of a request, received the confirm events handled, open
\* that the socket is open (app.js:193, 220).
ConfirmInit ==
    dialog = [listeners |-> <<>>, shown |-> 0, visible |-> FALSE, sent |-> <<>>,
              answered |-> [i \in ConfirmIds |-> "none"], received |-> 0,
              open |-> TRUE]

\* The sockets connect() opens, in the order it opens them, and the requests
\* the client issues, in the order of their identifiers.
SocketIds == 1..MaxSockets

ReqIds == 1..MaxReqs

\* part_001:23: nextId, the identifier of the n-th request as the string of
\* its number; distinct numbers give distinct strings.
NextId(n) == <<"id", n>>

\* A request that has not been issued.  method is chat.send for a request of
\* wsRequest and connect for the connect request of part_001:53-84, timer that
\* the 60 s timer of wsRequest is running, settles the number of calls of its
\* resolve and reject, by what settled it: the identifier of a response or
\* <<"timeout">>.
FreeReq ==
    [state |-> "free", method |-> "", timer |-> FALSE, settles |-> 0, by |-> <<"none">>]

\* part_001:12-15: the module state of the gateway client before the first
\* connect().  sockets holds the state of every socket connect() has opened,
\* ws the one the module variable refers to (0 is null), pending maps an
\* identifier to the request whose callbacks the entry holds (0 is no entry),
\* reconnects is the number of 3 s timers of part_001:113 that are running.
TransportInit ==
    transport = [sockets |-> <<>>, ws |-> 0, connected |-> FALSE, reqId |-> 0,
                 pending |-> [n \in ReqIds |-> 0],
                 requests |-> [n \in ReqIds |-> FreeReq],
                 reconnects |-> 0]

\* index.js:44-48: a frame of the server as the web client parses it, with
\* the empty string for a field the frame does not have.
Frame(type, state, message, text) ==
    [type |-> type, state |-> state, message |-> message, text |-> text]

\* The frames index.js sends: the states of index.js:99-136 (thinking is
\* handled like them), the transcript, a chunk and the end of a response
\* (index.js:109-122; recording_started, recording_stopped and history_cleared
\* are handled like response_complete), an error (index.js:71-135).
ServerFrames ==
    {Frame("state", st, "", "") : st \in {"transcribing", "speaking", "idle"}}
    \cup {Frame("transcript", "", "", "hi"),
          Frame("response_chunk", "", "", "a"),
          Frame("response_complete", "", "", "a"),
          Frame("error", "", "Processing failed", "")}

\* The readyState of a WebSocket.
CONNECTING == 0

OPEN == 1

CLOSING == 2

CLOSED == 3

\* app.js:43-53: the status text of a state
StatusText(state, error) ==
    IF state = "idle" THEN "Tap to talk"
    ELSE IF state = "listening" THEN "Listening..."
    ELSE IF state = "thinking" THEN "Thinking..."
    ELSE IF state = "speaking" THEN "Speaking..."
    ELSE IF state = "error" THEN (IF error # "" THEN error ELSE "Oops")
    ELSE "..."

\* app.js:6-8, 84-85, 286-288: the web client once its script has run: idle,
\* with its first socket connecting.  sockets holds the readyState of every
\* socket wsConnect has opened, ws being the last of them; texts are sequences
\* of characters, typed is the variable i of the typing interval; reconnectTimer
\* says that the variable holds a timer and timers counts the 2 s timers that
\* are running, clearTimers and errorTimers count the running timers of
\* clearText and of the error handler.  sent is what the latest tap sent
\* ("none" when nothing), taps and msgs count the taps and the frames handled;
\* lastError is the message of the latest error frame.  turn is where the
\* server is in its response (index.js:109-122): the chunk texts it has sent
\* since its latest transcript, and whether it has sent response_complete
\* after them.
WebInit ==
    web = [state |-> "idle", statusText |-> "Tap to talk", toast |-> "",
           sockets |-> <<CONNECTING>>, reconnectTimer |-> FALSE, timers |-> 0,
           userText |-> "", botText |-> <<>>, streamBuffer |-> <<>>,
           streamInterval |-> FALSE, typed |-> 0,
           clearTimers |-> 0, errorTimers |-> 0,
           sent |-> "none", taps |-> 0, msgs |-> 0,
           lastError |-> "", turn |-> [chunks |-> <<>>, phase |-> "none"]]

\* The adapters that are modelled on their own, before their first call.
AdapterInit ==
    /\ GatewayInit /\ CaptureInit /\ StreamInit /\ SynthInit /\ PlayInit /\ ConfirmInit
    /\ TransportInit /\ WebInit

\* The session is in Recording: capturing, with no pipeline in flight.
InRecording(c) == isRecording[c] /\ ActiveRuns(c) = {}

\* wss.on('connection'): the state of a fresh session.
Init ==
    /\ conns = {"c1"}
    /\ isRecording = [c \in Clients |-> FALSE]
    /\ recordingProcess = [c \in Clients |-> 0]
    /\ conversationHistory = <<>>
    /\ procs = {}
    /\ nextProc = 1
    /\ runs = [c \in Clients |-> [p \in RunIds |-> FreeRun]]
    /\ reply = [c \in Clients |-> <<>>]
    /\ nCmds = [c \in Clients |-> 0]
    /\ appended = [c \in Clients |-> <<>>]
    /\ cleared = [c \in Clients |-> FALSE]
    /\ AdapterInit

\* sendMessage: the log after sending events evs (dropped unless the socket is OPEN).
SendMessage(log, c, evs) == IF c \in conns THEN log \o evs ELSE log

\* The slots a command handler finds: a command that reaches an Idle session
\* opens a new turn window.
Window(c) == IF Quiescent(c) THEN [p \in RunIds |-> FreeRun] ELSE runs[c]

\* A handler that never suspends: it received a command and sent evs.
Handled(c, evs) ==
    /\ c \in conns
    /\ reply' = [reply EXCEPT ![c] = SendMessage(<<>>, c, evs)]
    /\ nCmds' = [nCmds EXCEPT ![c] = @ + 1]

\* ------------------------------------------------------------ start_recording

\* index.js:70-73
StartRejected(c) ==
    /\ isRecording[c]
    /\ Handled(c, <<EvError("Already recording")>>)
    /\ UNCHANGED <<conns, isRecording, recordingProcess, conversationHistory, procs,
                   nextProc, runs, appended, cleared>>
    /\ UNCHANGED adapterVars

\* index.js:74-78, startRecording returns a handle
StartOk(c) ==
    /\ ~isRecording[c]
    /\ recordingProcess' = [recordingProcess EXCEPT ![c] = nextProc]
    /\ procs' = procs \cup {nextProc}
    /\ nextProc' = nextProc + 1
    /\ isRecording' = [isRecording EXCEPT ![c] = TRUE]
    /\ Handled(c, <<EvPlain("recording_started")>>)
    /\ runs' = [runs EXCEPT ![c] = Window(c)]
    /\ UNCHANGED <<conns, conversationHistory, appended, cleared>>
    /\ UNCHANGED adapterVars

\* index.js:79-82, startRecording throws (spawn can throw synchronously)
StartThrows(c) ==
    /\ ~isRecording[c]
    /\ Handled(c, <<EvError("Failed to start recording")>>)
    /\ runs' = [runs EXCEPT ![c] = Window(c)]
    /\ UNCHANGED <<conns, isRecording, recordingProcess, conversationHistory, procs,
                   nextProc, appended, cleared>>
    /\ UNCHANGED adapterVars

\* index.js:69-83, the whole case
StartRecording(c) == StartRejected(c) \/ StartOk(c) \/ StartThrows(c)

\* ------------------------------------------------------------ stop_recording

\* The record of appends that goes with addToHistory.
NoteAppend(c, role, content) ==
    /\ appended' = [appended EXCEPT ![c] = Append(@, HistEntry(role, content))]
    /\ cleared' = [cleared EXCEPT ![c] = FALSE]

\* Handler p of c sends evs and goes on to pc; a request to the endpoint, if
\* the handler awaited one, is over.
Emit(c, p, evs, pc) ==
    runs' = [runs EXCEPT ![c][p] =
               [@ EXCEPT !.out = SendMessage(@, c, evs), !.pc = pc, !.messages = <<>>]]

\* A catch block that reports the failure and leaves the flag and the handle.
Catch_NoReset(c, p, msg) ==
    /\ Emit(c, p, <<EvError(msg), EvState("idle")>>, "done")
    /\ UNCHANGED <<isRecording, recordingProcess>>

\* index.js:133-138, the catch block of the pipeline
Catch(c, p, msg) ==
    /\ Emit(c, p, <<EvError(msg), EvState("idle")>>, "done")
    /\ isRecording' = [isRecording EXCEPT ![c] = FALSE]
    /\ recordingProcess' = [recordingProcess EXCEPT ![c] = 0]

\* index.js:86-89
StopRejected(c) ==
    /\ ~isRecording[c]
    /\ Handled(c, <<EvError("Not recording")>>)
    /\ runs' = [runs EXCEPT ![c] = Window(c)]
    /\ UNCHANGED <<conns, isRecording, recordingProcess, conversationHistory, procs,
                   nextProc, appended, cleared>>
    /\ UNCHANGED adapterVars

\* index.js:90-95, up to the await of stopRecording(recordingProcess)
StopAccepted(c) ==
    /\ c \in conns
    /\ isRecording[c]
    /\ Cardinality(UsedRuns(c)) < MaxRuns
    /\ LET p == Cardinality(UsedRuns(c)) + 1 IN
        runs' = [runs EXCEPT ![c][p] =
                   [FreeRun EXCEPT
                      !.pc = "await_stop",
                      !.handle = recordingProcess[c],
                      !.out = SendMessage(<<>>, c, <<EvPlain("recording_stopped"),
                                                     EvState("thinking")>>)]]
    /\ nCmds' = [nCmds EXCEPT ![c] = @ + 1]
    /\ UNCHANGED <<conns, isRecording, recordingProcess, conversationHistory, procs,
                   nextProc, reply, appended, cleared>>
    /\ UNCHANGED adapterVars

\* index.js:85-95, the case up to its first await
StopRecording(c) == StopRejected(c) \/ StopAccepted(c)

\* audio.js:113-155 settles and index.js:96-100 resumes: a missing handle rejects,
\* any other handle resolves once its process has closed or been killed.
StopRecordingSettles(c, p) ==
    /\ runs[c][p].pc = "await_stop"
    /\ IF runs[c][p].handle = 0
       THEN /\ Catch(c, p, "No recording process")
            /\ UNCHANGED procs
       ELSE /\ procs' = procs \ {runs[c][p].handle}
            /\ isRecording' = [isRecording EXCEPT ![c] = FALSE]
            /\ recordingProcess' = [recordingProcess EXCEPT ![c] = 0]
            /\ Emit(c, p, <<EvState("transcribing")>>, "await_transcribe")
    /\ UNCHANGED <<conns, conversationHistory, nextProc, reply, nCmds, appended, cleared>>
    /\ UNCHANGED adapterVars

\* index.js:100-119: transcribe resolves with text t; a blank text ends the run,
\* any other text is appended and chat is called (the endpoint will stream s).
TranscribeResolves(c, p, t, s) ==
    /\ runs[c][p].pc = "await_transcribe"
    /\ IF IsBlank(t)
       THEN /\ Emit(c, p, <<EvError("Could not understand audio"), EvState("idle")>>, "done")
            /\ UNCHANGED <<conversationHistory, appended, cleared>>
       ELSE /\ runs' = [runs EXCEPT ![c][p] =
                         [@ EXCEPT !.out = SendMessage(@, c, <<EvText("transcript", t),
                                                               EvState("thinking")>>),
                                   !.pc = "await_chat",
                                   !.transcript = t,
                                   !.stream = s,
                                   !.messages =
                                       BuildMessages(t, GetHistory(
                                           AddToHistory(conversationHistory, c, "user", t),
                                           c))]]
            /\ conversationHistory' = AddToHistory(conversationHistory, c, "user", t)
            /\ NoteAppend(c, "user", t)
    /\ UNCHANGED <<conns, isRecording, recordingProcess, procs, nextProc, reply, nCmds>>
    /\ UNCHANGED adapterVars

\* stt.js:90-93, 117-120: transcribe rejects
TranscribeRejects(c, p) ==
    /\ runs[c][p].pc = "await_transcribe"
    /\ Catch(c, p, "Transcription failed")
    /\ UNCHANGED <<conns, conversationHistory, procs, nextProc, reply, nCmds, appended, cleared>>
    /\ UNCHANGED adapterVars

\* index.js:116-119: the onChunk callback
ChatChunk(c, p) ==
    /\ runs[c][p].pc = "await_chat"
    /\ runs[c][p].nChunks < Len(runs[c][p].stream)
    /\ LET chunk == runs[c][p].stream[runs[c][p].nChunks + 1] IN
        runs' = [runs EXCEPT ![c][p] =
                   [@ EXCEPT !.fullResponse = @ \o chunk,
                             !.nChunks = @ + 1,
                             !.out = SendMessage(@, c, <<EvText("response_chunk", chunk)>>)]]
    /\ UNCHANGED <<conns, isRecording, recordingProcess, conversationHistory, procs,
                   nextProc, reply, nCmds, appended, cleared>>
    /\ UNCHANGED adapterVars

\* A handler that reports the reply and appends it to the history only after
\* the playback.
ChatResolves_NoAppend(c, p) ==
    /\ runs[c][p].pc = "await_chat"
    /\ runs[c][p].nChunks = Len(runs[c][p].stream)
    /\ Emit(c, p, <<EvText("response_complete", runs[c][p].fullResponse),
                    EvState("speaking")>>, "await_synth")
    /\ UNCHANGED <<conns, isRecording, recordingProcess, conversationHistory, procs,
                   nextProc, reply, nCmds, appended, cleared>>
    /\ UNCHANGED adapterVars

\* index.js:121-126: chat resolves once the stream has ended
ChatResolves(c, p) ==
    /\ runs[c][p].pc = "await_chat"
    /\ runs[c][p].nChunks = Len(runs[c][p].stream)
    /\ conversationHistory' =
           AddToHistory(conversationHistory, c, "assistant", runs[c][p].fullResponse)
    /\ NoteAppend(c, "assistant", runs[c][p].fullResponse)
    /\ Emit(c, p, <<EvText("response_complete", runs[c][p].fullResponse),
                    EvState("speaking")>>, "await_synth")
    /\ UNCHANGED <<conns, isRecording, recordingProcess, procs, nextProc, reply, nCmds>>
    /\ UNCHANGED adapterVars

\* openclaw.js:46-58: chat rejects (endpoint down, timeout, HTTP error)
ChatRejects(c, p) ==
    /\ runs[c][p].pc = "await_chat"
    /\ Catch(c, p, "Cannot connect to OpenClaw")
    /\ UNCHANGED <<conns, conversationHistory, procs, nextProc, reply, nCmds, appended, cleared>>
    /\ UNCHANGED adapterVars

\* tts.js:16-19: synthesize throws on a blank text before it runs the engine
SynthesizeAccepts(text) == ~(text = <<>> \/ Len(Trim(text)) = 0)

\* tts.js:56-70 and index.js:126-129: synthesize resolves, playAudio is called
SynthesizeResolves(c, p) ==
    /\ runs[c][p].pc = "await_synth"
    /\ SynthesizeAccepts(runs[c][p].fullResponse)
    /\ Emit(c, p, <<>>, "await_play")
    /\ UNCHANGED <<conns, isRecording, recordingProcess, conversationHistory, procs,
                   nextProc, reply, nCmds, appended, cleared>>
    /\ UNCHANGED adapterVars

\* tts.js:17-19, 56-75: synthesize rejects
SynthesizeRejects(c, p) ==
    /\ runs[c][p].pc = "await_synth"
    /\ Catch(c, p, IF SynthesizeAccepts(runs[c][p].fullResponse)
                   THEN "TTS failed" ELSE "No text to synthesize")
    /\ UNCHANGED <<conns, conversationHistory, procs, nextProc, reply, nCmds, appended, cleared>>
    /\ UNCHANGED adapterVars

\* audio.js:180-183 and index.js:129-132: playback ends with code 0
PlayAudioResolves(c, p) ==
    /\ runs[c][p].pc = "await_play"
    /\ Emit(c, p, <<EvState("idle")>>, "done")
    /\ UNCHANGED <<conns, isRecording, recordingProcess, conversationHistory, procs,
                   nextProc, reply, nCmds, appended, cleared>>
    /\ UNCHANGED adapterVars

\* audio.js:159-162, 184-191: playAudio rejects
PlayAudioRejects(c, p) ==
    /\ runs[c][p].pc = "await_play"
    /\ Catch(c, p, "Playback failed")
    /\ UNCHANGED <<conns, conversationHistory, procs, nextProc, reply, nCmds, appended, cleared>>
    /\ UNCHANGED adapterVars

\* ------------------------------------------------------------ other commands

\* index.js:142-146
ClearHistory(c) ==
    /\ conversationHistory' = DeleteHistory(conversationHistory, c)
    /\ Handled(c, <<EvPlain("history_cleared")>>)
    /\ runs' = [runs EXCEPT ![c] = Window(c)]
    /\ appended' = [appended EXCEPT ![c] = <<>>]
    /\ cleared' = [cleared EXCEPT ![c] = TRUE]
    /\ UNCHANGED <<conns, isRecording, recordingProcess, procs, nextProc>>
    /\ UNCHANGED adapterVars

\* index.js:148-149: stop_speaking has no case of its own and falls to default,
\* which logs.  The handler changes nothing; the model notes which suspended
\* chat calls the command found.
StopSpeaking(c) ==
    /\ Handled(c, <<>>)
    /\ runs' = [runs EXCEPT ![c] =
                 [p \in RunIds |-> IF Window(c)[p].pc = "await_chat"
                                   THEN [Window(c)[p] EXCEPT !.cancelled = TRUE]
                                   ELSE Window(c)[p]]]
    /\ UNCHANGED <<conns, isRecording, recordingProcess, conversationHistory, procs,
                   nextProc, appended, cleared>>
    /\ UNCHANGED adapterVars

\* A frame that is not JSON answered with an error event.
BadFrame_Replies(c) ==
    /\ Handled(c, <<EvError("Invalid JSON")>>)
    /\ UNCHANGED <<conns, isRecording, recordingProcess, conversationHistory, procs,
                   nextProc, runs, appended, cleared>>
    /\ UNCHANGED adapterVars

\* index.js:57-64: JSON.parse throws, the handler logs and returns
BadFrame(c) ==
    /\ Handled(c, <<>>)
    /\ UNCHANGED <<conns, isRecording, recordingProcess, conversationHistory, procs,
                   nextProc, runs, appended, cleared>>
    /\ UNCHANGED adapterVars

\* index.js:153-158: the socket closes.  A session that records has its capture
\* process stopped (stopRecording is called and not awaited; the process is
\* taken as gone once signalled).  The flag, the handle, the history entry and
\* the suspended handlers are left as they are.
Close(c) ==
    /\ c \in conns
    /\ conns' = conns \ {c}
    /\ procs' = IF isRecording[c] /\ recordingProcess[c] # 0
                THEN procs \ {recordingProcess[c]}
                ELSE procs
    /\ UNCHANGED <<isRecording, recordingProcess, conversationHistory, nextProc, runs,
                   reply, nCmds, appended, cleared>>
    /\ UNCHANGED adapterVars

\* ------------------------------------------------------------ specifications

\* ws.on('message') of connection c may still receive a command.
MayCommand(c) == nCmds[c] < MaxCmds

\* Any command at any time, and the adapters settling in any order.
Next ==
    \/ \E c \in Clients : MayCommand(c) /\ StartRejected(c)
    \/ \E c \in Clients : MayCommand(c) /\ StartOk(c)
    \/ \E c \in Clients : MayCommand(c) /\ StartThrows(c)
    \/ \E c \in Clients : MayCommand(c) /\ StopRejected(c)
    \/ \E c \in Clients : MayCommand(c) /\ StopAccepted(c)
    \/ \E c \in Clients : MayCommand(c) /\ ClearHistory(c)
    \/ \E c \in Clients : MayCommand(c) /\ StopSpeaking(c)
    \/ \E c \in Clients, p \in RunIds : StopRecordingSettles(c, p)
    \/ \E c \in Clients, p \in RunIds, t \in Transcripts, s \in Streams :
          TranscribeResolves(c, p, t, s)
    \/ \E c \in Clients, p \in RunIds : TranscribeRejects(c, p)
    \/ \E c \in Clients, p \in RunIds : ChatChunk(c, p)
    \/ \E c \in Clients, p \in RunIds : ChatResolves(c, p)
    \/ \E c \in Clients, p \in RunIds : ChatRejects(c, p)
    \/ \E c \in Clients, p \in RunIds : SynthesizeResolves(c, p)
    \/ \E c \in Clients, p \in RunIds : SynthesizeRejects(c, p)
    \/ \E c \in Clients, p \in RunIds : PlayAudioResolves(c, p)
    \/ \E c \in Clients, p \in RunIds : PlayAudioRejects(c, p)

Spec == Init /\ [][Next]_vars

\* The client of a turn-taking session: start_recording only to an Idle session,
\* stop_recording only to a session that records with no pipeline in flight.
MayStart(c) == nCmds[c] < MaxValidCmds /\ Quiescent(c)

MayStop(c) == nCmds[c] < MaxValidCmds /\ isRecording[c] /\ ActiveRuns(c) = {}

NextValid ==
    \/ \E c \in Clients : MayStart(c) /\ StartOk(c)
    \/ \E c \in Clients : MayStart(c) /\ StartThrows(c)
    \/ \E c \in Clients : MayStop(c) /\ StopAccepted(c)
    \/ \E c \in Clients, p \in RunIds : StopRecordingSettles(c, p)
    \/ \E c \in Clients, p \in RunIds, t \in Transcripts, s \in Streams :
          TranscribeResolves(c, p, t, s)
    \/ \E c \in Clients, p \in RunIds : TranscribeRejects(c, p)
    \/ \E c \in Clients, p \in RunIds : ChatChunk(c, p)
    \/ \E c \in Clients, p \in RunIds : ChatResolves(c, p)
    \/ \E c \in Clients, p \in RunIds : ChatRejects(c, p)
    \/ \E c \in Clients, p \in RunIds : SynthesizeResolves(c, p)
    \/ \E c \in Clients, p \in RunIds : SynthesizeRejects(c, p)
    \/ \E c \in Clients, p \in RunIds : PlayAudioResolves(c, p)
    \/ \E c \in Clients, p \in RunIds : PlayAudioRejects(c, p)

SpecValid == Init /\ [][NextValid]_vars

\* A turn-taking client whose connection may close at any time.
NextClose ==
    \/ \E c \in Clients : MayStart(c) /\ StartOk(c)
    \/ \E c \in Clients : MayStart(c) /\ StartThrows(c)
    \/ \E c \in Clients : MayStop(c) /\ StopAccepted(c)
    \/ \E c \in Clients : Close(c)
    \/ \E c \in Clients, p \in RunIds : StopRecordingSettles(c, p)
    \/ \E c \in Clients, p \in RunIds, t \in Transcripts, s \in Streams :
          TranscribeResolves(c, p, t, s)
    \/ \E c \in Clients, p \in RunIds : TranscribeRejects(c, p)
    \/ \E c \in Clients, p \in RunIds : ChatChunk(c, p)
    \/ \E c \in Clients, p \in RunIds : ChatResolves(c, p)
    \/ \E c \in Clients, p \in RunIds : ChatRejects(c, p)
    \/ \E c \in Clients, p \in RunIds : SynthesizeResolves(c, p)
    \/ \E c \in Clients, p \in RunIds : SynthesizeRejects(c, p)
    \/ \E c \in Clients, p \in RunIds : PlayAudioResolves(c, p)
    \/ \E c \in Clients, p \in RunIds : PlayAudioRejects(c, p)

SpecClose == Init /\ [][NextClose]_vars

\* wss.on('connection') has run for every client: two fresh sessions.
InitTwo ==
    /\ conns = Clients
    /\ isRecording = [c \in Clients |-> FALSE]
    /\ recordingProcess = [c \in Clients |-> 0]
    /\ conversationHistory = <<>>
    /\ procs = {}
    /\ nextProc = 1
    /\ runs = [c \in Clients |-> [p \in RunIds |-> FreeRun]]
    /\ reply = [c \in Clients |-> <<>>]
    /\ nCmds = [c \in Clients |-> 0]
    /\ appended = [c \in Clients |-> <<>>]
    /\ cleared = [c \in Clients |-> FALSE]
    /\ AdapterInit

\* ws.on('message') of connection c may still receive a frame in SpecTwo.
MayFrame(c) == nCmds[c] < MaxTwoCmds

\* Two turn-taking clients at once, each of which may also send frames that
\* are not JSON.
NextTwo ==
    \/ \E c \in Clients : MayFrame(c) /\ Quiescent(c) /\ StartOk(c)
    \/ \E c \in Clients : MayFrame(c) /\ Quiescent(c) /\ StartThrows(c)
    \/ \E c \in Clients : MayFrame(c) /\ InRecording(c) /\ StopAccepted(c)
    \/ \E c \in Clients : MayFrame(c) /\ BadFrame(c)
    \/ \E c \in Clients, p \in RunIds : StopRecordingSettles(c, p)
    \/ \E c \in Clients, p \in RunIds, t \in Transcripts, s \in Streams :
          TranscribeResolves(c, p, t, s)
    \/ \E c \in Clients, p \in RunIds : TranscribeRejects(c, p)
    \/ \E c \in Clients, p \in RunIds : ChatChunk(c, p)
    \/ \E c \in Clients, p \in RunIds : ChatResolves(c, p)
    \/ \E c \in Clients, p \in RunIds : ChatRejects(c, p)
    \/ \E c \in Clients, p \in RunIds : SynthesizeResolves(c, p)
    \/ \E c \in Clients, p \in RunIds : SynthesizeRejects(c, p)
    \/ \E c \in Clients, p \in RunIds : PlayAudioResolves(c, p)
    \/ \E c \in Clients, p \in RunIds : PlayAudioRejects(c, p)

SpecTwo == InitTwo /\ [][NextTwo]_vars

\* addToHistory called on its own, with any role and content.
AddToHistoryCall(c, role, content) ==
    /\ c \in conns
    /\ Len(appended[c]) < MaxAppends
    /\ conversationHistory' = AddToHistory(conversationHistory, c, role, content)
    /\ NoteAppend(c, role, content)
    /\ UNCHANGED <<conns, isRecording, recordingProcess, procs, nextProc, runs, reply, nCmds>>
    /\ UNCHANGED adapterVars

\* The entries the direct calls append.
HistoryInputs ==
    {HistEntry("user", <<" ", "h", "i">>), HistEntry("assistant", <<"H", "e", "l", "l", "o">>)}

NextHistory ==
    \E c \in Clients, e \in HistoryInputs : AddToHistoryCall(c, e.role, e.content)

SpecHistory == Init /\ [][NextHistory]_vars

\* ------------------------------------------------------------ gateway client

\* resolve or reject of the promise of chat(): a settled promise stays as it is.
Settle(call, outcome) ==
    IF call.pc = "await_response" THEN [call EXCEPT !.pc = outcome] ELSE call

\* part_001:151-183: the promise executor of chat().  It sets the module's
\* response handler to its own, sends chat.send through wsRequest (an entry in
\* pending and a 60 s timer) and starts its 45 s timer.
ChatSend(k) ==
    /\ activeResponseHandler' = k
    /\ calls' = [calls EXCEPT ![k] =
                   [@ EXCEPT !.pc = "await_response", !.timer45 = TRUE, !.timer60 = TRUE,
                             !.reqPending = TRUE, !.sent = TRUE]]

\* part_001:144-150: chat() is called; a client that is not connected awaits
\* connect() first.
ChatCall(k) ==
    /\ calls[k].pc = "free"
    /\ \A j \in Calls : j < k => calls[j].pc # "free"
    /\ IF connected
       THEN ChatSend(k)
       ELSE /\ calls' = [calls EXCEPT ![k].pc = "await_connect"]
            /\ UNCHANGED activeResponseHandler
    /\ UNCHANGED <<connected, relayVars, captureVars, streamVars, synthVars, playVars, dialogVars, transportVars, webVars>>

\* part_001:50-94, 146-182: the gateway sent its challenge and answered the
\* connect request with ok; connect() resolves and chat() goes on.
ConnectResolves(k) ==
    /\ calls[k].pc = "await_connect"
    /\ connected' = TRUE
    /\ ChatSend(k)
    /\ UNCHANGED <<relayVars, captureVars, streamVars, synthVars, playVars, dialogVars, transportVars, webVars>>

\* part_001:89-94, 103-107, 146-148: connect() rejects, on a socket error or on
\* a connect response that is not ok, and chat() throws Cannot connect.
ConnectRejects(k, socketError) ==
    /\ calls[k].pc = "await_connect"
    /\ connected' = IF socketError THEN FALSE ELSE connected
    /\ calls' = [calls EXCEPT ![k].pc = "rejected"]
    /\ UNCHANGED <<activeResponseHandler, relayVars, captureVars, streamVars, synthVars, playVars, dialogVars, transportVars, webVars>>

\* part_001:89-94, 170-173: the gateway answers the chat.send of call k.  A
\* response that is not ok rejects wsRequest, and the catch of chat() clears
\* the module's response handler and rejects the call; a gateway that refused
\* the request streams nothing for it.
GatewayRes(k, ok) ==
    /\ connected
    /\ calls[k].reqPending
    /\ IF ok
       THEN /\ calls' = [calls EXCEPT ![k].reqPending = FALSE]
            /\ UNCHANGED activeResponseHandler
       ELSE /\ calls' = [calls EXCEPT ![k] =
                           [Settle(@, "rejected") EXCEPT !.reqPending = FALSE, !.doneSent = TRUE]]
            /\ activeResponseHandler' = 0
    /\ UNCHANGED <<connected, relayVars, captureVars, streamVars, synthVars, playVars, dialogVars, transportVars, webVars>>

\* part_001:98-100, 121-129, 155-158: the gateway sends a chunk event produced
\* for the chat.send of call k; handleEvent passes it to the handler that is set.
GatewayChunk(k) ==
    /\ connected
    /\ calls[k].sent
    /\ ~calls[k].doneSent
    /\ calls[k].emitted < MaxChunks
    /\ LET chunk == <<k, calls[k].emitted + 1>>
           h == activeResponseHandler
           fed == IF h = 0
                  THEN calls
                  ELSE [calls EXCEPT ![h] = [@ EXCEPT !.fullResponse = Append(@, chunk),
                                                        !.received = Append(@, chunk)]]
       IN calls' = [fed EXCEPT ![k].emitted = @ + 1]
    /\ UNCHANGED <<connected, activeResponseHandler, relayVars, captureVars, streamVars, synthVars, playVars, dialogVars, transportVars, webVars>>

\* A done event that resolves the call and leaves its response handler set.
GatewayDone_KeepsHandler(k, withText) ==
    /\ connected
    /\ calls[k].sent
    /\ ~calls[k].doneSent
    /\ LET text == IF withText THEN << <<k, 0>> >> ELSE <<>>
           h == activeResponseHandler
           fed == IF h = 0
                  THEN calls
                  ELSE [calls EXCEPT ![h] =
                          Settle([@ EXCEPT !.fullResponse =
                                     IF text # <<>> /\ @ = <<>> THEN text ELSE @],
                                 "resolved")]
       IN calls' = [fed EXCEPT ![k].doneSent = TRUE]
    /\ UNCHANGED <<connected, activeResponseHandler, relayVars, captureVars, streamVars, synthVars, playVars, dialogVars, transportVars, webVars>>

\* part_001:130-133, 159-163: the gateway sends the done event of the chat.send
\* of call k, with the whole text or without one.
GatewayDone(k, withText) ==
    /\ connected
    /\ calls[k].sent
    /\ ~calls[k].doneSent
    /\ LET text == IF withText THEN << <<k, 0>> >> ELSE <<>>
           h == activeResponseHandler
           fed == IF h = 0
                  THEN calls
                  ELSE [calls EXCEPT ![h] =
                          Settle([@ EXCEPT !.fullResponse =
                                     IF text # <<>> /\ @ = <<>> THEN text ELSE @],
                                 "resolved")]
       IN calls' = [fed EXCEPT ![k].doneSent = TRUE]
    /\ activeResponseHandler' = 0
    /\ UNCHANGED <<connected, relayVars, captureVars, streamVars, synthVars, playVars, dialogVars, transportVars, webVars>>

\* part_001:176-182: the 45 s timer of call k fires.  Timers of one length fire
\* in the order in which they were started.
Timer45Fires(k) ==
    /\ calls[k].timer45
    /\ \A j \in Calls : j < k => ~calls[j].timer45
    /\ IF activeResponseHandler # 0
       THEN /\ activeResponseHandler' = 0
            /\ calls' = [calls EXCEPT ![k] =
                           [Settle(@, IF @.fullResponse # <<>> THEN "resolved" ELSE "rejected")
                              EXCEPT !.timer45 = FALSE]]
       ELSE /\ calls' = [calls EXCEPT ![k].timer45 = FALSE]
            /\ UNCHANGED activeResponseHandler
    /\ UNCHANGED <<connected, relayVars, captureVars, streamVars, synthVars, playVars, dialogVars, transportVars, webVars>>

\* part_001:31-36, 170-173: the 60 s timer of the chat.send of call k fires,
\* after the 45 s timer started with it.
Timer60Fires(k) ==
    /\ calls[k].timer60
    /\ ~calls[k].timer45
    /\ \A j \in Calls : j < k => ~calls[j].timer60
    /\ IF calls[k].reqPending
       THEN /\ calls' = [calls EXCEPT ![k] =
                           [Settle(@, "rejected") EXCEPT !.timer60 = FALSE, !.reqPending = FALSE]]
            /\ activeResponseHandler' = 0
       ELSE /\ calls' = [calls EXCEPT ![k].timer60 = FALSE]
            /\ UNCHANGED activeResponseHandler
    /\ UNCHANGED <<connected, relayVars, captureVars, streamVars, synthVars, playVars, dialogVars, transportVars, webVars>>

\* part_001:109-114: the socket to the gateway closes.
GatewayCloses ==
    /\ connected
    /\ connected' = FALSE
    /\ UNCHANGED <<activeResponseHandler, calls, relayVars, captureVars, streamVars, synthVars, playVars, dialogVars, transportVars, webVars>>

\* part_001:82, 113: a socket that connect() had opened has closed, and the
\* connect() of the automatic reconnect resolves.
GatewayReconnects ==
    /\ ~connected
    /\ \E k \in Calls : calls[k].pc # "free"
    /\ connected' = TRUE
    /\ UNCHANGED <<activeResponseHandler, calls, relayVars, captureVars, streamVars, synthVars, playVars, dialogVars, transportVars, webVars>>

\* The gateway client under any gateway: calls made one after the other or at
\* once, answers, events and closes at any time, or never.
NextGateway ==
    \/ \E k \in Calls : ChatCall(k)
    \/ \E k \in Calls : ConnectResolves(k)
    \/ \E k \in Calls, socketError \in BOOLEAN : ConnectRejects(k, socketError)
    \/ \E k \in Calls, ok \in BOOLEAN : GatewayRes(k, ok)
    \/ \E k \in Calls : GatewayChunk(k)
    \/ \E k \in Calls, withText \in BOOLEAN : GatewayDone(k, withText)
    \/ \E k \in Calls : Timer45Fires(k)
    \/ \E k \in Calls : Timer60Fires(k)
    \/ GatewayCloses
    \/ GatewayReconnects

SpecGateway == Init /\ [][NextGateway]_vars

\* The chat() calls of a caller that awaits each call before it makes the
\* next.
InTurnCalls == 1..MaxTurnCalls

\* part_001:144-150: chat() is called by a caller that has awaited the call
\* before it.
ChatCallInTurn(k) ==
    /\ \A j \in Calls : j < k => calls[j].pc \in {"resolved", "rejected"}
    /\ ChatCall(k)

\* The gateway client under any gateway, its calls made one after the other.
NextGatewayInTurn ==
    \/ \E k \in InTurnCalls : ChatCallInTurn(k)
    \/ \E k \in InTurnCalls : ConnectResolves(k)
    \/ \E k \in InTurnCalls, socketError \in BOOLEAN : ConnectRejects(k, socketError)
    \/ \E k \in InTurnCalls, ok \in BOOLEAN : GatewayRes(k, ok)
    \/ \E k \in InTurnCalls : GatewayChunk(k)
    \/ \E k \in InTurnCalls, withText \in BOOLEAN : GatewayDone(k, withText)
    \/ \E k \in InTurnCalls : Timer45Fires(k)
    \/ \E k \in InTurnCalls : Timer60Fires(k)
    \/ GatewayCloses
    \/ GatewayReconnects

SpecGatewayInTurn == Init /\ [][NextGatewayInTurn]_vars

\* ------------------------------------------------------------ stopRecording

\* resolve(wavPath): the first settlement of a promise is the one that counts.
Resolve(st) ==
    [st EXCEPT !.promise = IF @ = "pending" THEN "resolved" ELSE @,
               !.resolveCalls = @ + 1]

\* reject(err)
Reject(st) == [st EXCEPT !.promise = IF @ = "pending" THEN "rejected" ELSE @]

\* audio.js:132-153, part_002:46-56, part_003:57-73: the listeners are attached,
\* the grace timer is started and SIGINT is sent to the process.
DoStop(st) ==
    [st EXCEPT !.pc = "stopping", !.listening = TRUE, !.timer = TRUE, !.sigint = TRUE]

\* audio.js:113-130, part_002:42-44, part_003:53-55: stopRecording is called on
\* a handle that holds a process.  audio.js waits first when the recording is
\* shorter than 500 ms.
StopRecordingCall(k, impl, short) ==
    /\ stops[k].pc = "free"
    /\ \A j \in StopCalls : j < k => stops[j].pc # "free"
    /\ stops' = [stops EXCEPT ![k] =
                   IF impl = "audio.js" /\ short
                   THEN [@ EXCEPT !.pc = "delay", !.impl = impl]
                   ELSE DoStop([@ EXCEPT !.impl = impl])]
    /\ UNCHANGED <<relayVars, gatewayVars, streamVars, synthVars, playVars, dialogVars, transportVars, webVars>>

\* audio.js:125-127
DelayFires(k) ==
    /\ stops[k].pc = "delay"
    /\ stops' = [stops EXCEPT ![k] = DoStop(@)]
    /\ UNCHANGED <<relayVars, gatewayVars, streamVars, synthVars, playVars, dialogVars, transportVars, webVars>>

\* The capture process exits, on its own, on SIGINT or on SIGKILL, and its close
\* event is emitted to the listeners attached by then: audio.js:143-150,
\* part_002:46, part_003:61-64.
CaptureCloses(k) ==
    /\ stops[k].proc = "running"
    /\ LET st == [stops[k] EXCEPT !.proc = "exited"]
       IN stops' = [stops EXCEPT ![k] =
            CASE ~st.listening -> st
              [] st.listening /\ st.impl = "audio.js" ->
                    IF st.resolved
                    THEN st
                    ELSE Resolve([st EXCEPT !.resolved = TRUE, !.timer = FALSE])
              [] st.listening /\ st.impl = "part_002" -> Resolve(st)
              [] OTHER -> Resolve([st EXCEPT !.timer = FALSE])]
    /\ UNCHANGED <<relayVars, gatewayVars, streamVars, synthVars, playVars, dialogVars, transportVars, webVars>>

\* The grace timer fires: audio.js:135-141, part_002:53-55, part_003:57-59.
GraceTimerFires(k) ==
    /\ stops[k].timer
    /\ LET st == [stops[k] EXCEPT !.timer = FALSE]
       IN stops' = [stops EXCEPT ![k] =
            IF st.impl = "audio.js"
            THEN IF st.resolved
                 THEN st
                 ELSE Resolve([st EXCEPT !.resolved = TRUE, !.sigkill = TRUE])
            ELSE [st EXCEPT !.sigkill = TRUE]]
    /\ UNCHANGED <<relayVars, gatewayVars, streamVars, synthVars, playVars, dialogVars, transportVars, webVars>>

\* The process emits error (a signal could not be sent): part_002:47,
\* part_003:65-68 reject; audio.js attaches no error listener in stopRecording.
CaptureErrors(k) ==
    /\ stops[k].pc = "stopping"
    /\ stops[k].proc = "running"
    /\ stops[k].impl # "audio.js"
    /\ stops[k].promise = "pending"
    /\ stops' = [stops EXCEPT ![k] =
                   IF @.impl = "part_003" THEN Reject([@ EXCEPT !.timer = FALSE]) ELSE Reject(@)]
    /\ UNCHANGED <<relayVars, gatewayVars, streamVars, synthVars, playVars, dialogVars, transportVars, webVars>>

\* stopRecording calls on handles whose process may run on, exit on the signal
\* or have exited before the call.
NextStop ==
    \/ \E k \in StopCalls, impl \in Variants, short \in BOOLEAN : StopRecordingCall(k, impl, short)
    \/ \E k \in StopCalls : DelayFires(k)
    \/ \E k \in StopCalls : CaptureCloses(k)
    \/ \E k \in StopCalls : GraceTimerFires(k)
    \/ \E k \in StopCalls : CaptureErrors(k)

SpecStop == Init /\ [][NextStop]_vars

\* ------------------------------------------------------------ HTTP model clients

\* The text fragments the endpoint streams.
FragA == <<"H", "i">>

FragB == <<"!">>

\* What the endpoint writes is a sequence of symbols: the newline, a blank, and
\* parts of lines.  "{a" and "{b" open a JSON object whose content is FragA or
\* FragB and "}" closes it, "{}" is an object without content; the symbols that
\* start with "d:" begin a line with the field name of a server-sent event and
\* ":" is a line that is not a data line.
NdSymbols == {"\n", " ", "{a", "{b", "}", "{}", "{d}"}

SseSymbols == {"\n", ":", "d:{a", "d:{b", "}", "d:{}", "d:[DONE]"}

\* What one read (one data event) can deliver: any single symbol, a whole line,
\* two lines at once.
NdPieces ==
    {<<x>> : x \in NdSymbols} \cup
    {<<"{a", "}", "\n">>, <<"{b", "}", "\n">>, <<"{a", "}", "\n", "{b", "}">>,
     <<"{d}", "\n">>}

SsePieces ==
    {<<x>> : x \in SseSymbols} \cup
    {<<"d:{a", "}", "\n">>, <<"d:{b", "}", "\n">>,
     <<"d:{a", "}", "\n", "d:{b", "}", "\n">>, <<"d:[DONE]", "\n", "\n">>}

Pieces == NdPieces \cup SsePieces

\* String.prototype.split('\n'): the parts between the newlines, at least one.
RECURSIVE Split(_)
Split(s) ==
    IF \A i \in 1..Len(s) : s[i] # "\n"
    THEN <<s>>
    ELSE LET i == CHOOSE j \in 1..Len(s) : s[j] = "\n" /\ \A k \in 1..(j - 1) : s[k] # "\n"
         IN <<SubSeq(s, 1, i - 1)>> \o Split(SubSeq(s, i + 1, Len(s)))

\* JSON.parse and the content the parsed object carries (message.content in
\* openclaw.js:107, choices[0].delta.content in part_000:62); anything that is
\* not a whole object throws.
JSONParse(s) ==
    IF s = <<"{a", "}">> THEN [ok |-> TRUE, content |-> FragA, done |-> FALSE]
    ELSE IF s = <<"{b", "}">> THEN [ok |-> TRUE, content |-> FragB, done |-> FALSE]
    ELSE IF s = <<"{}">> THEN [ok |-> TRUE, content |-> <<>>, done |-> FALSE]
    ELSE IF s = <<"{d}">> THEN [ok |-> TRUE, content |-> <<>>, done |-> TRUE]
    ELSE [ok |-> FALSE, content |-> <<>>, done |-> FALSE]

\* part_000:54: line.startsWith('data: ')
StartsWithData(line) ==
    line # <<>> /\ line[1] \in {"d:{a", "d:{b", "d:{}", "d:[DONE]"}

\* part_000:55: line.slice(6).trim()
Payload(line) ==
    LET first == IF line[1] = "d:{a" THEN "{a"
                 ELSE IF line[1] = "d:{b" THEN "{b"
                 ELSE IF line[1] = "d:{}" THEN "{}"
                 ELSE "[DONE]"
    IN Trim(<<first>> \o Tail(line))

\* openclaw.js:108-113, part_000:64-65
Deliver(st, chunk) ==
    [st EXCEPT !.fullResponse = @ \o chunk, !.chunks = Append(@, chunk)]

\* resolve(fullResponse), return fullResponse: a promise settles once.
ResolveHttp(st) ==
    IF st.pc = "open"
    THEN [st EXCEPT !.pc = "resolved", !.result = st.fullResponse,
                    !.passed = Len(st.chunks)]
    ELSE st

\* openclaw.js:102-121: one line of the loop body
HandleLine(st, line) ==
    IF Trim(line) = <<>>
    THEN st
    ELSE LET data == JSONParse(Trim(line))
         IN IF data.ok /\ data.content # <<>> THEN Deliver(st, data.content) ELSE st

\* openclaw.js:101-122
RECURSIVE HandleLines(_, _)
HandleLines(st, lines) ==
    IF lines = <<>> THEN st ELSE HandleLines(HandleLine(st, Head(lines)), Tail(lines))

\* A last line that is added to the reply and not passed to onChunk.
FlushBuffer_NoChunk(st) ==
    IF Trim(st.buffer) = <<>>
    THEN st
    ELSE LET data == JSONParse(Trim(st.buffer))
         IN IF data.ok /\ data.content # <<>>
            THEN [st EXCEPT !.fullResponse = @ \o data.content]
            ELSE st

\* openclaw.js:125-136: the last line, which no newline ended
FlushBuffer(st) ==
    IF Trim(st.buffer) = <<>>
    THEN st
    ELSE LET data == JSONParse(Trim(st.buffer))
         IN IF data.ok /\ data.content # <<>> THEN Deliver(st, data.content) ELSE st

\* app.js:350-362: the loop of the data listener of the Ollama reader, which
\* resolves at a line with done and goes on with the lines after it
RECURSIVE OllamaLines(_, _)
OllamaLines(st, lines) ==
    IF lines = <<>>
    THEN st
    ELSE IF Trim(Head(lines)) = <<>>
    THEN OllamaLines(st, Tail(lines))
    ELSE LET data == JSONParse(Trim(Head(lines)))
             passed == IF data.ok /\ data.content # <<>>
                       THEN Deliver(st, data.content) ELSE st
         IN OllamaLines(IF data.ok /\ data.done THEN ResolveHttp(passed) ELSE passed,
                        Tail(lines))

\* part_000:53-68: the loop of the data listener, which returns at [DONE]
RECURSIVE SseLines(_, _)
SseLines(st, lines) ==
    IF lines = <<>>
    THEN st
    ELSE IF ~StartsWithData(Head(lines))
    THEN SseLines(st, Tail(lines))
    ELSE IF Payload(Head(lines)) = <<"[DONE]">>
    THEN ResolveHttp(st)
    ELSE LET data == JSONParse(Payload(Head(lines)))
         IN SseLines(IF data.ok /\ data.content # <<>> THEN Deliver(st, data.content) ELSE st,
                     Tail(lines))

\* openclaw.js:40-41, 85-88, part_000:44-46 and app.js:341-343: the response has arrived and the
\* body is about to be read.
HttpChat(impl) ==
    /\ http.pc = "free"
    /\ http' = [FreeHttp EXCEPT !.pc = "open", !.impl = impl]
    /\ UNCHANGED <<relayVars, gatewayVars, captureVars, synthVars, playVars, dialogVars, transportVars, webVars>>

\* openclaw.js:92-122: reader.read() resolves with a value; part_000:48-69 and
\* app.js:345-363: the data listener, which stays on the response after the
\* promise has resolved.
StreamData(piece) ==
    /\ http.ended = "no"
    /\ http.reads < MaxReads
    /\ \/ http.pc = "open" /\ http.impl = "openclaw.js" /\ piece \in NdPieces
       \/ http.pc \in {"open", "resolved"} /\ http.impl = "part_000" /\ piece \in SsePieces
       \/ http.pc \in {"open", "resolved"} /\ http.impl = "app.js" /\ piece \in NdPieces
    /\ LET lines == Split(http.buffer \o piece)
           st == [http EXCEPT !.buffer = lines[Len(lines)],
                              !.input = @ \o piece,
                              !.reads = @ + 1]
       IN http' = IF http.impl = "openclaw.js"
                  THEN HandleLines(st, SubSeq(lines, 1, Len(lines) - 1))
                  ELSE IF http.impl = "part_000"
                  THEN SseLines(st, SubSeq(lines, 1, Len(lines) - 1))
                  ELSE OllamaLines(st, SubSeq(lines, 1, Len(lines) - 1))
    /\ UNCHANGED <<relayVars, gatewayVars, captureVars, synthVars, playVars, dialogVars, transportVars, webVars>>

\* openclaw.js:94, 125-138: read() resolves with done; part_000:71 and
\* app.js:365-377: the end listener.
StreamEnd ==
    /\ http.ended = "no"
    /\ http.pc = "open" \/ (http.pc = "resolved" /\ http.impl # "openclaw.js")
    /\ http' = IF http.impl = "part_000"
               THEN ResolveHttp([http EXCEPT !.ended = "end"])
               ELSE ResolveHttp(FlushBuffer([http EXCEPT !.ended = "end"]))
    /\ UNCHANGED <<relayVars, gatewayVars, captureVars, synthVars, playVars, dialogVars, transportVars, webVars>>

\* openclaw.js:92, 139-141: read() rejects and chat rethrows; part_000:72 and
\* app.js:379: the error listener rejects.
StreamError ==
    /\ http.ended = "no"
    /\ http.pc = "open" \/ (http.pc = "resolved" /\ http.impl # "openclaw.js")
    /\ http' = [http EXCEPT !.ended = "error",
                            !.pc = IF @ = "open" THEN "rejected" ELSE @]
    /\ UNCHANGED <<relayVars, gatewayVars, captureVars, synthVars, playVars, dialogVars, transportVars, webVars>>

\* One chat() call of one of the clients on a stream the endpoint cuts into reads as
\* it likes.
NextStream ==
    \/ \E impl \in HttpClients : HttpChat(impl)
    \/ \E piece \in Pieces : StreamData(piece)
    \/ StreamEnd
    \/ StreamError

SpecStream == Init /\ [][NextStream]_vars

\* ------------------------------------------------------------ synthesize

\* The texts synthesize is called with: the empty text, a blank, and texts of
\* letters (no markup, no inner whitespace) of some lengths around the limits.
TextLengths == {1, 2} \cup (499..504) \cup (1999..MaxTextLen)

TtsTexts == {<<>>, <<" ">>} \cup {[i \in 1..n |-> "x"] : n \in TextLengths}

\* tts.js:120-139 on a text without markup: trim, then slice(0, 2000)
CleanTextForTTS(text) ==
    LET t == Trim(text)
    IN IF Len(t) > CleanLimit THEN SubSeq(t, 1, CleanLimit) ELSE t

\* part_001:208, 299-300: text.length > 500 ? text.slice(0, 500) + '...' : text
TtsText(text) ==
    IF Len(text) > maxChars THEN SubSeq(text, 1, maxChars) \o <<".", ".", ".">> ELSE text

\* The engine a call runs first: Piper in tts.js, the speech endpoint of the
\* gateway in part_001:212, the first of piper, say and espeak that is
\* installed in part_001:303-321 (none: no engine found).
EnginesOf(impl) ==
    IF impl = "tts.js" THEN {"piper"}
    ELSE IF impl = "part_001:204" THEN {"openclaw"}
    ELSE {"piper", "say", "espeak", "none"}

\* tts.js:16-48, 77-78, part_001:204-212 and part_001:295-321, up to the first
\* await on an engine
SynthesizeCall(impl, text, engine) ==
    /\ tts.pc = "free"
    /\ engine \in EnginesOf(impl)
    /\ tts' =
         IF ~SynthesizeAccepts(text)
         THEN IF impl = "tts.js"
              THEN [FreeSynth EXCEPT !.pc = "rejected", !.impl = impl, !.text = text]
              ELSE [FreeSynth EXCEPT !.pc = "resolved", !.impl = impl, !.text = text,
                                     !.result = "null"]
         ELSE IF engine = "none"
         THEN [FreeSynth EXCEPT !.pc = "resolved", !.impl = impl, !.text = text,
                                !.result = "null"]
         ELSE [FreeSynth EXCEPT
                 !.pc = "engine", !.impl = impl, !.text = text, !.engine = engine,
                 !.handed = <<IF impl = "tts.js" THEN CleanTextForTTS(text)
                              ELSE TtsText(text)>>]
    /\ UNCHANGED <<relayVars, gatewayVars, captureVars, streamVars, playVars, dialogVars, transportVars, webVars>>

\* tts.js:56-69, part_001:254-258, 226-227, 337, 348-349, 356-357: the engine
\* wrote the audio file
EngineSucceeds ==
    /\ tts.pc = "engine"
    /\ tts' = [tts EXCEPT !.pc = "resolved", !.result = "path"]
    /\ UNCHANGED <<relayVars, gatewayVars, captureVars, streamVars, playVars, dialogVars, transportVars, webVars>>

\* part_001:213-228: the speech endpoint of the gateway failed and the
\* fallback (say on macOS, espeak-ng elsewhere) is given the same text
GatewayTtsFails(fallback) ==
    /\ tts.pc = "engine"
    /\ tts.engine = "openclaw"
    /\ tts' = [tts EXCEPT !.engine = fallback, !.handed = Append(@, TtsText(tts.text))]
    /\ UNCHANGED <<relayVars, gatewayVars, captureVars, streamVars, playVars, dialogVars, transportVars, webVars>>

\* tts.js:56-66, 72-75, part_001:338-340, 348, 356 and part_001:219, 228-231: an
\* engine other than the speech endpoint failed; the espeak fallback of
\* part_001:223-231 swallows the failure and returns null.
EngineFails ==
    /\ tts.pc = "engine"
    /\ tts.engine # "openclaw"
    /\ tts' = IF tts.impl = "part_001:204" /\ tts.engine = "espeak"
              THEN [tts EXCEPT !.pc = "resolved", !.result = "null"]
              ELSE [tts EXCEPT !.pc = "rejected"]
    /\ UNCHANGED <<relayVars, gatewayVars, captureVars, streamVars, playVars, dialogVars, transportVars, webVars>>

\* One synthesize call of any version on any text.
NextSynth ==
    \/ \E impl \in Synthesizers, text \in TtsTexts,
          engine \in {"piper", "openclaw", "say", "espeak", "none"} :
          SynthesizeCall(impl, text, engine)
    \/ EngineSucceeds
    \/ \E fallback \in {"say", "espeak"} : GatewayTtsFails(fallback)
    \/ EngineFails

SpecSynth == Init /\ [][NextSynth]_vars

\* ------------------------------------------------------------ playAudio

\* A promise settles once: a later resolve or reject changes nothing.
SettlePlay(st, outcome) ==
    IF st.promise = "pending" THEN [st EXCEPT !.promise = outcome] ELSE st

\* audio.js:157-171, part_002:60-67, part_003:77-86: the call, up to the point
\* where the listeners are attached.  audio.js rejects when the file is not
\* there; the other two spawn the player whatever the path.
PlayAudioCall(k, impl, exists) ==
    /\ plays[k].pc = "free"
    /\ plays' = [plays EXCEPT ![k] =
                   IF impl = "audio.js" /\ ~exists
                   THEN [FreePlay EXCEPT !.pc = "called", !.impl = impl, !.file = "absent",
                                         !.promise = "rejected"]
                   ELSE [FreePlay EXCEPT !.pc = "called", !.impl = impl,
                                         !.file = IF exists THEN "present" ELSE "absent",
                                         !.proc = "running"]]
    /\ UNCHANGED <<relayVars, gatewayVars, captureVars, streamVars, synthVars, dialogVars, transportVars, webVars>>

\* audio.js:180-187, part_002:69-73, part_003:88-92: the close listener.  The
\* player has exited with code 0 or not (not, when it had failed to start).
PlayerCloses(k, ok) ==
    /\ plays[k].proc \in {"running", "errored"}
    /\ plays[k].proc = "errored" => ~ok
    /\ plays' = [plays EXCEPT ![k] =
                   IF @.impl = "audio.js"
                   THEN IF ok
                        THEN SettlePlay([@ EXCEPT !.proc = "closed", !.file = "absent"],
                                        "resolved")
                        ELSE SettlePlay([@ EXCEPT !.proc = "closed"], "rejected")
                   ELSE SettlePlay([@ EXCEPT !.proc = "closed", !.unlinking = TRUE],
                                   "resolved")]
    /\ UNCHANGED <<relayVars, gatewayVars, captureVars, streamVars, synthVars, dialogVars, transportVars, webVars>>

\* audio.js:189-191, part_002:74-77, part_003:93-96: the error listener (the
\* player could not be started); the close event follows.
PlayerErrors(k) ==
    /\ plays[k].proc = "running"
    /\ plays' = [plays EXCEPT ![k] =
                   SettlePlay([@ EXCEPT !.proc = "errored"],
                              IF @.impl = "audio.js" THEN "rejected" ELSE "resolved")]
    /\ UNCHANGED <<relayVars, gatewayVars, captureVars, streamVars, synthVars, dialogVars, transportVars, webVars>>

\* part_002:71, part_003:90: unlink(wavPath) completes (a failure is swallowed)
UnlinkSettles(k) ==
    /\ plays[k].unlinking
    /\ plays' = [plays EXCEPT ![k] = [@ EXCEPT !.unlinking = FALSE, !.file = "absent"]]
    /\ UNCHANGED <<relayVars, gatewayVars, captureVars, streamVars, synthVars, dialogVars, transportVars, webVars>>

\* playAudio calls of any version, on files that are there or not.
NextPlay ==
    \/ \E k \in PlayCalls, impl \in Variants, exists \in BOOLEAN : PlayAudioCall(k, impl, exists)
    \/ \E k \in PlayCalls, ok \in BOOLEAN : PlayerCloses(k, ok)
    \/ \E k \in PlayCalls : PlayerErrors(k)
    \/ \E k \in PlayCalls : UnlinkSettles(k)

SpecPlay == Init /\ [][NextPlay]_vars

\* ------------------------------------------------------------ confirm dialog of the web client

\* app.js:263-267, 130-149: a confirm event arrives.  confirm() writes the text
\* of the request into the dialog, shows the overlay and adds a click listener
\* of its own to each of the two buttons.
ConfirmArrives ==
    /\ dialog.open
    /\ dialog.received < MaxConfirms
    /\ dialog' = [dialog EXCEPT !.received = @ + 1,
                                !.listeners = Append(@, dialog.received + 1),
                                !.shown = dialog.received + 1,
                                !.visible = TRUE]
    /\ UNCHANGED <<relayVars, gatewayVars, captureVars, streamVars, synthVars, playVars, transportVars, webVars>>

\* app.js:136-145, 264-266: the user taps Yes or No.  Every listener on the
\* button runs (stopPropagation does not stop the other listeners of the same
\* element): each removes itself, hides the overlay and resolves its promise,
\* and each promise sends the confirm_response of its request, which wsSend
\* (app.js:219-223) drops unless the socket is open.
Click(yes) ==
    /\ dialog.visible
    /\ dialog' = [dialog EXCEPT
                    !.listeners = <<>>,
                    !.visible = FALSE,
                    !.sent = IF dialog.open
                             THEN @ \o [i \in 1..Len(dialog.listeners) |->
                                           [id |-> dialog.listeners[i], confirmed |-> yes]]
                             ELSE @,
                    !.answered[dialog.shown] = IF yes THEN "yes" ELSE "no"]
    /\ UNCHANGED <<relayVars, gatewayVars, captureVars, streamVars, synthVars, playVars, transportVars, webVars>>

\* app.js:208-212: the socket closes
WsCloses ==
    /\ dialog.open
    /\ dialog' = [dialog EXCEPT !.open = FALSE]
    /\ UNCHANGED <<relayVars, gatewayVars, captureVars, streamVars, synthVars, playVars, transportVars, webVars>>

\* app.js:225-231, 188-197: the reconnect timer fires and the socket opens
WsReconnects ==
    /\ ~dialog.open
    /\ dialog' = [dialog EXCEPT !.open = TRUE]
    /\ UNCHANGED <<relayVars, gatewayVars, captureVars, streamVars, synthVars, playVars, transportVars, webVars>>

\* The server sends confirm events, the user taps a button of the dialog, and
\* the socket may close and open again.
NextConfirm ==
    \/ ConfirmArrives
    \/ \E yes \in BOOLEAN : Click(yes)
    \/ WsCloses
    \/ WsReconnects

SpecConfirm == Init /\ [][NextConfirm]_vars


\* ------------------------------------------------------------ gateway client: sockets and requests

\* The sockets that are connecting or open.
LiveSockets(t) ==
    {s \in 1..Len(t.sockets) : t.sockets[s] \in {"connecting", "open"}}

\* The sockets on which a frame can arrive.
OpenSockets(t) == {s \in 1..Len(t.sockets) : t.sockets[s] = "open"}

\* part_001:40-42: connect() opens a socket and makes it the module's ws.
Connect(t) ==
    [t EXCEPT !.sockets = Append(@, "connecting"), !.ws = Len(t.sockets) + 1]

\* pending.set(id, ...): the entry of the request with number n
PendingSet(t, n, method, timer) ==
    [t EXCEPT !.reqId = n,
              !.pending[n] = n,
              !.requests[n] = [FreeReq EXCEPT !.state = "pending", !.method = method,
                                              !.timer = timer]]

\* The callbacks of request r are called: resolve or reject.
SettleReq(t, r, outcome, by) ==
    [t EXCEPT !.requests[r] =
        [@ EXCEPT !.state = IF @ = "pending" THEN outcome ELSE @,
                  !.settles = @ + 1,
                  !.by = IF @ = <<"none">> THEN by ELSE @]]

\* part_001:144-148: chat() is called while the client is not connected and
\* awaits connect().
ChatConnects ==
    /\ ~transport.connected
    /\ Len(transport.sockets) < MaxSockets
    /\ transport' = Connect(transport)
    /\ UNCHANGED <<relayVars, gatewayVars, captureVars, streamVars, synthVars, playVars, dialogVars, webVars>>

\* The socket s has connected to the gateway.
SocketOpens(s) ==
    /\ s <= Len(transport.sockets)
    /\ transport.sockets[s] = "connecting"
    /\ transport' = [transport EXCEPT !.sockets[s] = "open"]
    /\ UNCHANGED <<relayVars, gatewayVars, captureVars, streamVars, synthVars, playVars, dialogVars, webVars>>

\* part_001:52-86: the gateway sends connect.challenge on socket s; the client
\* sends its connect request and sets an entry for it, without a timer.
Challenge(s) ==
    /\ s <= Len(transport.sockets)
    /\ transport.sockets[s] = "open"
    /\ transport.reqId < MaxReqs
    /\ transport' = PendingSet(transport, transport.reqId + 1, "connect", FALSE)
    /\ UNCHANGED <<relayVars, gatewayVars, captureVars, streamVars, synthVars, playVars, dialogVars, webVars>>

\* part_001:26-38, 170: chat() of a connected client sends chat.send through
\* wsRequest: an entry in pending and a 60 s timer.
WsRequest ==
    /\ transport.connected
    /\ transport.reqId < MaxReqs
    /\ transport' = PendingSet(transport, transport.reqId + 1, "chat.send", TRUE)
    /\ UNCHANGED <<relayVars, gatewayVars, captureVars, streamVars, synthVars, playVars, dialogVars, webVars>>

\* A response that settles the oldest entry of pending, whatever its id.
Response_AnyEntry(n, ok) ==
    /\ OpenSockets(transport) # {}
    /\ IF \E i \in ReqIds : transport.pending[i] # 0
       THEN LET i == CHOOSE j \in ReqIds :
                        transport.pending[j] # 0 /\ \A k \in 1..(j - 1) : transport.pending[k] = 0
                r == transport.pending[i]
                settled == SettleReq([transport EXCEPT !.pending[i] = 0], r,
                                     IF ok THEN "resolved" ELSE "rejected", NextId(n))
            IN transport' =
                   IF ok /\ transport.requests[r].method = "connect"
                   THEN [settled EXCEPT !.connected = TRUE]
                   ELSE settled
       ELSE UNCHANGED transport
    /\ UNCHANGED <<relayVars, gatewayVars, captureVars, streamVars, synthVars, playVars, dialogVars, webVars>>

\* part_001:88-95: a frame of type res with the identifier of number n arrives
\* on an open socket.  With an entry for it the entry is deleted and its
\* callbacks are called, the resolve of a connect request setting connected
\* (part_001:81-84); without one the frame is dropped.
Response(n, ok) ==
    /\ OpenSockets(transport) # {}
    /\ IF transport.pending[n] # 0
       THEN LET r == transport.pending[n]
                settled == SettleReq([transport EXCEPT !.pending[n] = 0], r,
                                     IF ok THEN "resolved" ELSE "rejected", NextId(n))
            IN transport' =
                   IF ok /\ transport.requests[r].method = "connect"
                   THEN [settled EXCEPT !.connected = TRUE]
                   ELSE settled
       ELSE UNCHANGED transport
    /\ UNCHANGED <<relayVars, gatewayVars, captureVars, streamVars, synthVars, playVars, dialogVars, webVars>>

\* part_001:31-36: the 60 s timer of request n fires; timers of one length fire
\* in the order in which they were started.
RequestTimerFires(n) ==
    /\ transport.requests[n].timer
    /\ \A j \in 1..(n - 1) : ~transport.requests[j].timer
    /\ LET stopped == [transport EXCEPT !.requests[n].timer = FALSE]
       IN transport' =
              IF transport.pending[n] # 0
              THEN SettleReq([stopped EXCEPT !.pending[n] = 0], n, "rejected", <<"timeout">>)
              ELSE stopped
    /\ UNCHANGED <<relayVars, gatewayVars, captureVars, streamVars, synthVars, playVars, dialogVars, webVars>>

\* part_001:103-114: the socket s closes, after an error or without one; either
\* listener clears connected, and the close listener starts a 3 s timer.
SocketCloses(s) ==
    /\ s \in LiveSockets(transport)
    /\ transport' = [transport EXCEPT !.sockets[s] = "closed",
                                      !.connected = FALSE,
                                      !.reconnects = @ + 1]
    /\ UNCHANGED <<relayVars, gatewayVars, captureVars, streamVars, synthVars, playVars, dialogVars, webVars>>

\* part_001:113: a 3 s timer fires and calls connect().
ReconnectFires ==
    /\ transport.reconnects > 0
    /\ Len(transport.sockets) < MaxSockets
    /\ transport' = Connect([transport EXCEPT !.reconnects = @ - 1])
    /\ UNCHANGED <<relayVars, gatewayVars, captureVars, streamVars, synthVars, playVars, dialogVars, webVars>>

\* The sockets and the requests of the gateway client under any gateway.
NextTransport ==
    \/ ChatConnects
    \/ \E s \in SocketIds : SocketOpens(s)
    \/ \E s \in SocketIds : Challenge(s)
    \/ WsRequest
    \/ \E n \in ReqIds, ok \in BOOLEAN : Response(n, ok)
    \/ \E n \in ReqIds : RequestTimerFires(n)
    \/ \E s \in SocketIds : SocketCloses(s)
    \/ ReconnectFires

SpecTransport == Init /\ [][NextTransport]_vars


\* ------------------------------------------------------------ web client

\* app.js:39-61: setState
SetState(w, newState, error) ==
    [w EXCEPT !.state = newState, !.statusText = StatusText(newState, error)]

\* The socket the variable ws refers to.
Ws(w) == Len(w.sockets)

\* app.js:219-223: wsSend sends on an open socket and drops the frame otherwise.
WsSend(w, type) ==
    [w EXCEPT !.sent = IF w.sockets[Ws(w)] = OPEN THEN type ELSE "none"]

\* app.js:74-81: clearText starts a 400 ms timer.
ClearText(w) == [w EXCEPT !.clearTimers = @ + 1]

\* A tap that interrupts whatever the client is doing.
TapHandler_InterruptsAlways(w) ==
    IF w.state \in {"idle", "error"}
    THEN WsSend(SetState(ClearText(w), "listening", ""), "start_recording")
    ELSE IF w.state = "listening"
    THEN WsSend(SetState(w, "thinking", ""), "stop_recording")
    ELSE SetState(WsSend(w, "stop_speaking"), "idle", "")

\* app.js:168-185: the pointerdown listener of the tap zone
TapHandler(w) ==
    IF w.state \in {"idle", "error"}
    THEN WsSend(SetState(ClearText(w), "listening", ""), "start_recording")
    ELSE IF w.state = "listening"
    THEN WsSend(SetState(w, "thinking", ""), "stop_recording")
    ELSE IF w.state = "speaking"
    THEN SetState(WsSend(w, "stop_speaking"), "idle", "")
    ELSE w

\* The user taps the screen.
Tap ==
    /\ web.taps < MaxTaps
    /\ web' = TapHandler([web EXCEPT !.taps = @ + 1, !.sent = "none"])
    /\ UNCHANGED <<relayVars, gatewayVars, captureVars, streamVars, synthVars, playVars, dialogVars, transportVars>>

\* app.js:77-80: a timer of clearText fires.
ClearTimerFires ==
    /\ web.clearTimers > 0
    /\ web' = [web EXCEPT !.clearTimers = @ - 1, !.userText = "", !.botText = <<>>]
    /\ UNCHANGED <<relayVars, gatewayVars, captureVars, streamVars, synthVars, playVars, dialogVars, transportVars>>

\* app.js:93-108: appendStreamText adds the chunk to streamBuffer and starts the
\* typing interval at the length of the text shown, unless it is running.
AppendStreamText(w, chunk) ==
    [w EXCEPT !.streamBuffer = Append(@, chunk),
              !.streamInterval = TRUE,
              !.typed = IF w.streamInterval THEN @ ELSE Len(w.botText)]

\* app.js:98-106: the typing interval fires.
TypeTick ==
    /\ web.streamInterval
    /\ web' = IF web.typed < Len(web.streamBuffer)
              THEN [web EXCEPT !.botText = SubSeq(web.streamBuffer, 1, web.typed + 1),
                               !.typed = @ + 1]
              ELSE [web EXCEPT !.streamInterval = FALSE]
    /\ UNCHANGED <<relayVars, gatewayVars, captureVars, streamVars, synthVars, playVars, dialogVars, transportVars>>

\* What the server has sent of the turn it is in.
NoteTurn(w, msg) ==
    IF msg.type = "transcript"
    THEN [w EXCEPT !.turn = [chunks |-> <<>>, phase |-> "open"]]
    ELSE IF msg.type = "response_chunk"
    THEN [w EXCEPT !.turn.chunks = Append(@, msg.text)]
    ELSE IF msg.type = "response_complete"
    THEN [w EXCEPT !.turn.phase = "complete"]
    ELSE w

\* app.js:274-275: msg.text || default
ErrorText(msg, default) == IF msg.text # "" THEN msg.text ELSE default

\* app.js:234-284: handleMessage.  Of the frames the server sends, the client
\* has a case for state, transcript, response_chunk and error; the others end
\* in the default case, which logs.
HandleMessage(w, msg) ==
    IF msg.type = "state" THEN SetState(w, msg.state, "")
    ELSE IF msg.type = "transcript"
    THEN SetState([w EXCEPT !.userText = msg.text], "thinking", "")
    ELSE IF msg.type = "response_chunk" THEN AppendStreamText(w, msg.text)
    ELSE IF msg.type = "error"
    THEN [SetState(w, "error", ErrorText(msg, "Something went wrong"))
            EXCEPT !.toast = ErrorText(msg, "Error"),
                   !.errorTimers = @ + 1,
                   !.lastError = msg.message]
    ELSE w

\* app.js:199-206: a frame of the server arrives on the open socket.  The
\* server sends the chunks and the end of a response after the transcript of
\* the turn (index.js:109-122).
WebReceives(msg) ==
    /\ web.sockets[Ws(web)] = OPEN
    /\ web.msgs < MaxMsgs
    /\ msg.type \in {"response_chunk", "response_complete"} => web.turn.phase = "open"
    /\ web' = HandleMessage(NoteTurn([web EXCEPT !.msgs = @ + 1], msg), msg)
    /\ UNCHANGED <<relayVars, gatewayVars, captureVars, streamVars, synthVars, playVars, dialogVars, transportVars>>

\* app.js:276-278: a 4 s timer of the error handler fires.
ErrorTimerFires ==
    /\ web.errorTimers > 0
    /\ web' = IF web.state = "error"
              THEN SetState([web EXCEPT !.errorTimers = @ - 1], "idle", "")
              ELSE [web EXCEPT !.errorTimers = @ - 1]
    /\ UNCHANGED <<relayVars, gatewayVars, captureVars, streamVars, synthVars, playVars, dialogVars, transportVars>>

\* app.js:188-191: wsConnect opens a socket unless ws is connecting or open.
WsConnect(w) ==
    IF w.sockets # <<>> /\ w.sockets[Ws(w)] <= OPEN
    THEN w
    ELSE [w EXCEPT !.sockets = Append(@, CONNECTING)]

\* A close listener that schedules nothing.
ScheduleReconnect_Never(w) == w

\* app.js:225-231: scheduleReconnect starts the 2 s timer unless it is running.
ScheduleReconnect(w) ==
    IF w.reconnectTimer THEN w ELSE [w EXCEPT !.reconnectTimer = TRUE, !.timers = @ + 1]

\* app.js:193-197: the socket s has connected.
WebSocketOpens(s) ==
    /\ s <= Len(web.sockets)
    /\ web.sockets[s] = CONNECTING
    /\ web' = [SetState(web, "idle", "") EXCEPT !.sockets[s] = OPEN, !.toast = "Connected"]
    /\ UNCHANGED <<relayVars, gatewayVars, captureVars, streamVars, synthVars, playVars, dialogVars, transportVars>>

\* app.js:214-216: the socket s fails, and the listener closes the socket ws
\* refers to.
WebSocketErrors(s) ==
    /\ s <= Len(web.sockets)
    /\ web.sockets[s] <= OPEN
    /\ Len(web.sockets) < MaxWebSockets
    /\ web' = [web EXCEPT !.sockets[Ws(web)] = IF @ <= OPEN THEN CLOSING ELSE @]
    /\ UNCHANGED <<relayVars, gatewayVars, captureVars, streamVars, synthVars, playVars, dialogVars, transportVars>>

\* app.js:208-212: the socket s has closed, on its own or after close().
WebSocketCloses(s) ==
    /\ s <= Len(web.sockets)
    /\ web.sockets[s] < CLOSED
    /\ Len(web.sockets) < MaxWebSockets
    /\ web' = ScheduleReconnect([web EXCEPT !.sockets[s] = CLOSED, !.toast = "Reconnecting..."])
    /\ UNCHANGED <<relayVars, gatewayVars, captureVars, streamVars, synthVars, playVars, dialogVars, transportVars>>

\* app.js:227-230: the 2 s timer fires.
WebReconnectFires ==
    /\ web.timers > 0
    /\ web' = WsConnect([web EXCEPT !.reconnectTimer = FALSE, !.timers = @ - 1])
    /\ UNCHANGED <<relayVars, gatewayVars, captureVars, streamVars, synthVars, playVars, dialogVars, transportVars>>

\* The sockets wsConnect opens, in the order it opens them.
WebSockets == 1..MaxWebSockets

\* The web client under any server and any user.
NextWeb ==
    \/ Tap
    \/ ClearTimerFires
    \/ TypeTick
    \/ \E msg \in ServerFrames : WebReceives(msg)
    \/ ErrorTimerFires
    \/ \E s \in WebSockets : WebSocketOpens(s)
    \/ \E s \in WebSockets : WebSocketErrors(s)
    \/ \E s \in WebSockets : WebSocketCloses(s)
    \/ WebReconnectFires

SpecWeb == Init /\ [][NextWeb]_vars

\* The sockets of the web client and its taps, which no frame of the server
\* changes.
NextWebSockets ==
    \/ Tap
    \/ ClearTimerFires
    \/ \E s \in WebSockets : WebSocketOpens(s)
    \/ \E s \in WebSockets : WebSocketErrors(s)
    \/ \E s \in WebSockets : WebSocketCloses(s)
    \/ WebReconnectFires

\* A timer that has been started fires: the 2 s timer of scheduleReconnect.
SpecWebSockets == Init /\ [][NextWebSockets]_vars /\ WF_vars(WebReconnectFires)

\* ------------------------------------------------------------ properties

\* The concatenation of a sequence of texts.
RECURSIVE Concat(_)
Concat(ss) == IF ss = <<>> THEN <<>> ELSE Head(ss) \o Concat(Tail(ss))

\* The texts of the events of type t in a log, in order.
TextsOf(log, t) ==
    LET picked == SelectSeq(log, LAMBDA e : e.type = t)
    IN [i \in 1..Len(picked) |-> picked[i].text]

\* The error messages that reject a command; every other error reports a failure.
Rejections == {"Already recording", "Not recording"}

\* C1: at most one execution of the stop_recording pipeline body is in flight
\* per session at any time.
C1_OnePipelineInFlight == \A c \in Clients : Cardinality(ActiveRuns(c)) <= 1

\* C2: a start_recording received while the session is not Idle is rejected with
\* an error event, starts no capture process and leaves the recording flag, the
\* capture handle and the history unchanged.
C2_StartRejectedUnlessIdle ==
    [][\A c \in Clients :
          (StartRecording(c) /\ ~Quiescent(c)) =>
              /\ Len(reply'[c]) = 1
              /\ reply'[c][1].type = "error"
              /\ procs' = procs
              /\ isRecording'[c] = isRecording[c]
              /\ recordingProcess'[c] = recordingProcess[c]
              /\ conversationHistory' = conversationHistory]_vars

\* C3: a stop_recording received while the session is not in Recording is
\* rejected with an error event and starts no pipeline run.
C3_StopRejectedUnlessRecording ==
    [][\A c \in Clients :
          (StopRecording(c) /\ ~InRecording(c)) =>
              /\ Len(reply'[c]) = 1
              /\ reply'[c][1].type = "error"
              /\ \A p \in RunIds : runs'[c][p].pc = "await_stop" => runs[c][p].pc = "await_stop"]_vars

\* In a handler's log every failure error is the only error of the log and is
\* followed at once by state: idle.
ErrorThenIdle(log) ==
    \A i \in 1..Len(log) :
        (log[i].type = "error" /\ log[i].message \notin Rejections) =>
            /\ i < Len(log)
            /\ log[i + 1] = EvState("idle")
            /\ \A j \in 1..Len(log) : log[j].type = "error" => j = i

\* C4: every failure of an operation produces exactly one error event followed
\* by a state: idle event.
C4_FailureErrorThenIdle ==
    \A c \in Clients :
        /\ ErrorThenIdle(reply[c])
        /\ \A p \in RunIds : ErrorThenIdle(runs[c][p].out)

\* The events of a turn that a cancelled exchange must no longer deliver.
ResponseEvents(log) ==
    SelectSeq(log, LAMBDA e :
        \/ e.type \in {"response_chunk", "response_done", "response_complete", "audio_done"}
        \/ e = EvState("speaking"))

\* C5: once stop_speaking was received while the session was in Thinking, no
\* response_chunk, response_done/response_complete, audio_done or state:
\* speaking event of that turn is delivered.
C5_NoEventsAfterCancel ==
    [][\A c \in Clients, p \in RunIds :
          runs[c][p].cancelled =>
              Len(ResponseEvents(runs'[c][p].out)) <= Len(ResponseEvents(runs[c][p].out))]_vars

\* The n newest elements of s, oldest first.
Newest(s, n) ==
    LET k == IF Len(s) > n THEN n ELSE Len(s)
    IN [i \in 1..k |-> s[Len(s) - k + i]]

\* h is what remains of the appended entries after dropping from the front.
IsTail(h, all) ==
    /\ Len(h) <= Len(all)
    /\ \A i \in 1..Len(h) : h[i] = all[Len(all) - Len(h) + i]

\* C6: under a client that respects the state machine, every finished turn
\* leaves the session Idle (recording flag false, no capture handle, state: idle
\* as the last event of the turn), with at most MAX_HISTORY history entries, in
\* the order in which they were appended.
C6_TurnEndsIdleHistoryBounded ==
    \A c \in Clients, p \in RunIds :
        runs[c][p].pc = "done" =>
            /\ ~isRecording[c]
            /\ recordingProcess[c] = 0
            /\ runs[c][p].out # <<>>
            /\ runs[c][p].out[Len(runs[c][p].out)] = EvState("idle")
            /\ Len(GetHistory(conversationHistory, c)) <= MAX_HISTORY
            /\ IsTail(GetHistory(conversationHistory, c), appended[c])

\* A turn ran to its end without a failure after more than MAX_HISTORY appends.
C6_Witness ==
    \E c \in Clients, p \in RunIds :
        /\ runs[c][p].pc = "done"
        /\ \A i \in 1..Len(runs[c][p].out) : runs[c][p].out[i].type # "error"
        /\ Len(appended[c]) > MAX_HISTORY
        /\ Len(GetHistory(conversationHistory, c)) = MAX_HISTORY

\* C7: after any sequence of addToHistory calls the history holds at most
\* MAX_HISTORY entries and equals the last min(n, MAX_HISTORY) appended entries
\* in their original order.
C7_HistoryKeepsNewest ==
    \A c \in Clients :
        /\ Len(GetHistory(conversationHistory, c)) <= MAX_HISTORY
        /\ GetHistory(conversationHistory, c) = Newest(appended[c], MAX_HISTORY)

\* Twelve appends have left entries 3..12.
C7_Witness ==
    \E c \in Clients :
        /\ Len(appended[c]) = 12
        /\ GetHistory(conversationHistory, c) = SubSeq(appended[c], 3, 12)

\* C8: once the model client has emitted its increments and completed, the log
\* of the turn holds response_chunk events with exactly those increments in
\* order, then a response_done event whose text is their concatenation.
C8_ChunksThenResponseDone ==
    \A c \in Clients, p \in RunIds :
        runs[c][p].pc \in {"await_synth", "await_play"} =>
            /\ TextsOf(runs[c][p].out, "response_chunk") = runs[c][p].stream
            /\ TextsOf(runs[c][p].out, "response_done") = <<Concat(runs[c][p].stream)>>

\* A text that is empty or holds whitespace only.
WhitespaceOnly(t) == \A i \in 1..Len(t) : t[i] \in Whitespace

C10_ClearThenReadEmpty ==
    [][\A c \in Clients :
          /\ ClearHistory(c) => reply'[c] = <<EvPlain("history_cleared")>>
          /\ cleared'[c] => GetHistory(conversationHistory', c) = <<>>]_vars

\* The history was cleared after the user entry of a turn in flight was appended.
C10_Witness ==
    \E c \in Clients, p \in RunIds :
        /\ cleared[c]
        /\ runs[c][p].pc = "await_chat"
        /\ reply[c] = <<EvPlain("history_cleared")>>
        /\ GetHistory(conversationHistory, c) = <<>>

\* The session captures while one of its chat calls is in flight.
CaptureDuringExchange(c) ==
    /\ recordingProcess[c] \in procs
    /\ \E p \in RunIds : runs[c][p].pc = "await_chat"

\* C11: a capture process is never active for a session while a chat call of
\* that session is in flight, and an Idle session holds neither a capture
\* handle nor a chat call.
C11_CaptureXorExchange ==
    \A c \in Clients :
        /\ ~CaptureDuringExchange(c)
        /\ Quiescent(c) =>
              /\ recordingProcess[c] = 0
              /\ \A p \in RunIds : runs[c][p].pc # "await_chat"

\* The states of the state events of a log, in order.
StatesOf(log) ==
    LET picked == SelectSeq(log, LAMBDA e : e.type = "state")
    IN [i \in 1..Len(picked) |-> picked[i].state]

\* The states of the state table.
TableStates == {"idle", "recording", "transcribing", "thinking", "speaking", "error"}

\* The state the table lets a turn report after state st, besides idle.
TableNext(st) ==
    CASE st = "transcribing" -> "thinking"
      [] st = "thinking" -> "speaking"
      [] OTHER -> "idle"

\* The reported states ss of one turn follow the table: transcribing first,
\* every later state the table's successor of the one before it, or idle.
FollowsTable(ss) ==
    \A i \in 1..Len(ss) :
        /\ ss[i] \in TableStates
        /\ i = 1 => ss[i] \in {"transcribing", "idle"}
        /\ i > 1 => ss[i] \in {TableNext(ss[i - 1]), "idle"}

\* C12: the states reported to the client for one turn follow the state table
\* (transcribing, thinking, speaking, idle, with idle as the exit of an error):
\* thinking is never reported before transcribing and no state outside the
\* table is reported.
C12_StatesFollowTable ==
    \A c \in Clients, p \in RunIds : FollowsTable(StatesOf(runs[c][p].out))

\* An adapter call of handler p of c fails and the catch block runs.
AdapterFails(c, p) ==
    \/ StopRecordingSettles(c, p) /\ runs[c][p].handle = 0
    \/ TranscribeRejects(c, p)
    \/ ChatRejects(c, p)
    \/ SynthesizeRejects(c, p)
    \/ PlayAudioRejects(c, p)

\* C13: after any adapter failure inside the stop_recording pipeline the
\* recording flag is false and the capture handle null, and a start_recording
\* that finds the flag false is never answered with Already recording.
C13_FailureResetsSession ==
    [][\A c \in Clients :
          /\ \A p \in RunIds :
                AdapterFails(c, p) =>
                    /\ ~isRecording'[c]
                    /\ recordingProcess'[c] = 0
                    /\ runs'[c][p].pc = "done"
          /\ (StartRecording(c) /\ ~isRecording[c]) =>
                \A i \in 1..Len(reply'[c]) : reply'[c][i] # EvError("Already recording")]_vars

\* The chat call failed after a capture had been accepted during Thinking: the
\* catch block has reset the flag and the handle of that capture.
C13_Witness ==
    \E c \in Clients, p \in RunIds :
        /\ runs[c][p].pc = "done"
        /\ Len(runs[c][p].out) >= 2
        /\ runs[c][p].out[Len(runs[c][p].out) - 1] = EvError("Cannot connect to OpenClaw")
        /\ ~isRecording[c]
        /\ recordingProcess[c] = 0
        /\ procs # {}

\* C14: when the connection closes, an active capture process is stopped, the
\* pipeline of the closed session makes no further adapter call and no further
\* history append, and the session's entry in the history registry no longer
\* exists.
C14_CloseReleasesSession ==
    [][\A c \in Clients :
          /\ Close(c) => recordingProcess[c] \notin procs'
          /\ c \notin conns =>
                /\ appended'[c] = appended[c]
                /\ \A p \in RunIds :
                      runs'[c][p].pc \in {runs[c][p].pc, "done"}
          /\ c \notin conns' => c \notin DOMAIN conversationHistory']_vars

\* C15: a frame that is not JSON sends no event, leaves the recording flags,
\* the capture handles, the capture processes, the history and the suspended
\* handlers of every session as they are, and leaves every connection open.
C15_BadFrameIgnored ==
    [][\A c \in Clients :
          BadFrame(c) =>
              /\ reply'[c] = <<>>
              /\ isRecording' = isRecording
              /\ recordingProcess' = recordingProcess
              /\ procs' = procs
              /\ conversationHistory' = conversationHistory
              /\ runs' = runs
              /\ conns' = conns]_vars

\* A session received a frame that is not JSON besides its start_recording and
\* stop_recording and its pipeline went on to await chat, while the other
\* session was recording.
C15_Witness ==
    \E c \in Clients, d \in Clients, p \in RunIds :
        /\ c # d
        /\ runs[c][p].pc = "await_chat"
        /\ nCmds[c] = 3
        /\ reply[c] = <<>>
        /\ isRecording[d]

\* The playback processes that run: the handlers suspended at await playAudio.
Playing == {cp \in Clients \X RunIds : runs[cp[1]][cp[2]].pc = "await_play"}

\* C20: at most one capture process is active on the input device and at most
\* one playback process on the output device at any time, whatever the number
\* of connections.
C20_DevicesSerialized ==
    /\ Cardinality(procs) <= 1
    /\ Cardinality(Playing) <= 1

\* Call k has settled.
Settled(k) == calls[k].pc \in {"resolved", "rejected"}

\* A timer, an event or a completion that belongs to call k.
StepOf(k) ==
    \/ Timer45Fires(k)
    \/ Timer60Fires(k)
    \/ \E ok \in BOOLEAN : GatewayRes(k, ok)
    \/ GatewayChunk(k)
    \/ \E withText \in BOOLEAN : GatewayDone(k, withText)

\* C16: a timer, an event or a completion that belongs to an earlier chat()
\* call, already settled, never clears the response handler of a later call,
\* never settles the later call and never feeds its response.
C16_StaleResultsDropped ==
    [][\A k \in Calls, j \in Calls :
          (k < j /\ Settled(k) /\ StepOf(k)) =>
              /\ activeResponseHandler = j => activeResponseHandler' = j
              /\ calls'[j].pc = calls[j].pc
              /\ calls'[j].fullResponse = calls[j].fullResponse]_vars

\* C17: every chat() call settles within its timeout window whatever the
\* gateway does, a gateway that does nothing more included: a call that has
\* been made and has not settled holds a running timer of its own.
C17_ChatSettlesInWindow ==
    \A k \in Calls :
        calls[k].pc \in {"await_connect", "await_response"} =>
            calls[k].timer45 \/ calls[k].timer60

\* C19: the chunks passed to the onChunk of a call, and so to the client and
\* the history of the session that made it, were produced for a chat.send of
\* that same session.
C19_SessionsIsolated ==
    \A k \in Calls :
        \A i \in 1..Len(calls[k].received) :
            Owner(calls[k].received[i][1]) = Owner(k)

\* C18: stopRecording on a handle that holds a process always settles exactly
\* once: it sends SIGINT, resolve is called at most once, a call still pending
\* on a running process when the grace period is over has sent SIGKILL, and
\* once the process is gone and the grace period over the promise has settled.
C18_StopRecordingSettlesOnce ==
    \A k \in StopCalls :
        /\ stops[k].resolveCalls <= 1
        /\ stops[k].pc = "stopping" =>
              /\ stops[k].sigint
              /\ (~stops[k].timer /\ stops[k].proc = "running" /\ stops[k].promise = "pending")
                    => stops[k].sigkill
              /\ (~stops[k].timer /\ stops[k].proc = "exited") => stops[k].promise # "pending"

\* The lines of the stream the reader has had to handle until its promise
\* settled: those a newline ended, for the two readers of newline-delimited
\* JSON also the last one once the stream has ended; for part_000 only those
\* before the first [DONE], for app.js those up to the first object with done.
ArrivedLines(st) ==
    LET lines == Split(st.input)
        ended == SubSeq(lines, 1, Len(lines) - 1)
        dones == {i \in 1..Len(ended) :
                     IF st.impl = "part_000"
                     THEN StartsWithData(ended[i]) /\ Payload(ended[i]) = <<"[DONE]">>
                     ELSE st.impl = "app.js" /\ JSONParse(Trim(ended[i])).done}
        first == CHOOSE i \in dones : \A j \in dones : i <= j
    IN IF dones # {}
       THEN SubSeq(ended, 1, IF st.impl = "part_000" THEN first - 1 ELSE first)
       ELSE IF st.impl # "part_000" /\ st.ended = "end" THEN lines ELSE ended

\* The text fragment a line carries, <<>> when it carries none.
FragmentOf(impl, line) ==
    IF impl = "part_000"
    THEN (IF StartsWithData(line) THEN JSONParse(Payload(line)).content ELSE <<>>)
    ELSE JSONParse(Trim(line)).content

\* The fragments of the stream in the order they arrived.
ArrivedFragments(st) ==
    LET lines == ArrivedLines(st)
    IN SelectSeq([i \in 1..Len(lines) |-> FragmentOf(st.impl, lines[i])],
                 LAMBDA f : f # <<>>)

\* The fragments the call passed to onChunk until its promise settled.
PassedChunks(st) ==
    IF st.pc = "resolved" THEN SubSeq(st.chunks, 1, st.passed) ELSE st.chunks

C22_EngineTextWithinCap ==
    \A i \in 1..Len(tts.handed) : Len(tts.handed[i]) <= maxChars

\* C23: synthesize called with an empty or blank text runs no engine, raises no
\* error and returns null.
C23_BlankTextReturnsNull ==
    (tts.pc # "free" /\ (tts.text = <<>> \/ Trim(tts.text) = <<>>)) =>
        (tts.pc = "resolved" /\ tts.result = "null" /\ tts.handed = <<>>)

\* C24: when synthesize fails after the model reply was received, the
\* response_complete event with the whole reply has been sent, the user entry
\* and the assistant entry of the turn are the two newest history entries, and
\* the session is Idle again: the handler has ended with state: idle, nothing
\* records and no pipeline is in flight.
C24_SynthesisFailureTolerated ==
    [][\A c \in Clients, p \in RunIds :
          SynthesizeRejects(c, p) =>
              LET out == runs'[c][p].out
                  h == GetHistory(conversationHistory', c)
              IN /\ \E i \in 1..Len(out) :
                        out[i] = EvText("response_complete", runs[c][p].fullResponse)
                 /\ Concat(TextsOf(out, "response_chunk")) = runs[c][p].fullResponse
                 /\ Len(h) >= 2
                 /\ h[Len(h) - 1] = HistEntry("user", runs[c][p].transcript)
                 /\ h[Len(h)] = HistEntry("assistant", runs[c][p].fullResponse)
                 /\ runs'[c][p].pc = "done"
                 /\ out[Len(out)] = EvState("idle")
                 /\ ~isRecording'[c]
                 /\ recordingProcess'[c] = 0
                 /\ \A q \in RunIds : runs'[c][q].pc \in {"free", "done"}]_vars

\* The engine failed on a reply of two chunks: the turn has ended with the
\* error event and state: idle, and the history holds both entries of the turn.
C24_Witness ==
    \E c \in Clients, p \in RunIds :
        /\ runs[c][p].pc = "done"
        /\ runs[c][p].fullResponse = <<"H", "e", "l", "l", "o">>
        /\ Len(runs[c][p].out) >= 2
        /\ runs[c][p].out[Len(runs[c][p].out) - 1] = EvError("TTS failed")
        /\ Len(GetHistory(conversationHistory, c)) >= 2
        /\ GetHistory(conversationHistory, c)[Len(GetHistory(conversationHistory, c))] =
               HistEntry("assistant", runs[c][p].fullResponse)

\* C25: once a playAudio call has settled, its player process is gone and no
\* unlink is under way, the audio file is no longer on disk, whatever the
\* outcome was: played, exited with a nonzero code, or not started.
C25_PlayAudioReleasesFile ==
    \A k \in PlayCalls :
        (/\ plays[k].promise # "pending"
         /\ plays[k].proc \in {"none", "closed"}
         /\ ~plays[k].unlinking) => plays[k].file = "absent"

\* C26: every confirm_response the client sends carries the answer the user
\* gave to the request of that id, and no request is answered twice, also when
\* a confirm event arrives while an earlier one awaits its answer.
C26_ConfirmAnsweredById ==
    /\ \A i \in 1..Len(dialog.sent) :
           dialog.answered[dialog.sent[i].id] =
               (IF dialog.sent[i].confirmed THEN "yes" ELSE "no")
    /\ \A i, j \in 1..Len(dialog.sent) :
           dialog.sent[i].id = dialog.sent[j].id => i = j

\* C27: when an adapter failure has been handled by the catch block, every
\* capture process that still runs is one whose handle the session holds: in
\* recordingProcess, or in a handler that awaits its stopRecording.
C27_NoOrphanedCapture ==
    [][\A c \in Clients, p \in RunIds :
          AdapterFails(c, p) =>
              \A h \in procs' :
                  \/ h = recordingProcess'[c]
                  \/ \E q \in RunIds :
                        runs'[c][q].pc = "await_stop" /\ runs'[c][q].handle = h]_vars

\* C28: the message list a turn sends to the model is the system prompt
\* followed by the history as it is when chat is called, whose last entry is
\* the utterance of the turn: the utterance is in the list once.
C28_UtteranceSentOnce ==
    [][\A c \in Clients, p \in RunIds :
          (runs[c][p].pc = "await_transcribe" /\ runs'[c][p].pc = "await_chat") =>
              runs'[c][p].messages =
                  <<SystemMessage>> \o GetHistory(conversationHistory', c)]_vars

\* s consists of pairs: a user entry, then an assistant entry.
Paired(s) ==
    /\ Len(s) % 2 = 0
    /\ \A i \in 1..Len(s) : s[i].role = (IF i % 2 = 1 THEN "user" ELSE "assistant")

\* C29: whenever the session is Idle, the entries appended to its history
\* (before truncation) are user/assistant pairs, also after a turn that ended
\* in a model, synthesis or playback failure.
C29_HistoryInPairs ==
    \A c \in Clients : Quiescent(c) => Paired(appended[c])

\* C30: when the chat call of a turn returns after a clear_history that was
\* handled while the call was in flight, with nothing appended since, the
\* history holds no entry of that turn.
C30_ClearedTurnStaysOut ==
    [][\A c \in Clients, p \in RunIds :
          (/\ runs[c][p].pc = "await_chat"
           /\ runs'[c][p].pc = "await_synth"
           /\ cleared[c]) =>
              GetHistory(conversationHistory', c) = <<>>]_vars

\* C31: once a chat() call has resolved, its onChunk callback is not invoked
\* again: the fragments it has passed are those it had passed when the promise
\* resolved, whatever the endpoint sends after the done marker.
C31_NoChunkAfterResolve ==
    http.pc = "resolved" => Len(http.chunks) = http.passed

\* The text of a done event of the gateway.
DoneTexts == {<< <<k, 0>> >> : k \in Calls}

\* What a call has resolved with: the chunks its handler was given, in order,
\* when there are any, and else the text of a done event or the empty text.
C38_ResolvedText(call) ==
    IF call.received # <<>>
    THEN call.fullResponse = call.received
    ELSE call.fullResponse \in DoneTexts \cup {<<>>}

\* What the caller of call k can see of it.
C38_Seen(k) == <<calls[k].pc, calls[k].fullResponse, calls[k].received>>

\* C38: in the gateway client, chat() resolves with the concatenation of the
\* chunk texts its handler was given when at least one chunk arrived before the
\* done event, and with the text of the done event only when none arrived; a
\* done event resolves the call whose handler is set and clears the handler,
\* and an event that arrives while no handler is set changes no call.
C38_DoneResolvesAndClears ==
    [][/\ \A k \in Calls : calls'[k].pc = "resolved" => C38_ResolvedText(calls'[k])
       /\ \A k \in Calls, withText \in BOOLEAN :
              GatewayDone(k, withText) =>
                  /\ activeResponseHandler' = 0
                  /\ activeResponseHandler # 0 =>
                         /\ calls[activeResponseHandler].pc = "await_response"
                         /\ calls'[activeResponseHandler].pc = "resolved"
                         /\ (withText /\ calls[activeResponseHandler].received = <<>>) =>
                                calls'[activeResponseHandler].fullResponse = << <<k, 0>> >>
       /\ \A k \in Calls :
              (activeResponseHandler = 0
                 /\ (GatewayChunk(k) \/ \E withText \in BOOLEAN : GatewayDone(k, withText))) =>
                  \A j \in Calls : C38_Seen(j)' = C38_Seen(j)
      ]_vars

\* Call 1 has resolved on its done event with the two chunks produced for it,
\* and no handler is left set.
C38_Witness ==
    /\ calls[1].pc = "resolved"
    /\ calls[1].doneSent
    /\ calls[1].received = << <<1, 1>>, <<1, 2>> >>
    /\ calls[1].fullResponse = calls[1].received
    /\ activeResponseHandler = 0

\* C32: a tap sends start_recording only from idle or error, and the client is
\* then listening; stop_recording only from listening, and the client is then
\* thinking; stop_speaking only from speaking, and the client is then idle; a
\* tap while the client is thinking sends nothing and changes nothing.
C32_TapSendsFromMatchingState ==
    [][web'.taps # web.taps =>
         /\ web'.sent \in {"none", "start_recording", "stop_recording", "stop_speaking"}
         /\ web'.sent = "start_recording" =>
                (web.state \in {"idle", "error"} /\ web'.state = "listening")
         /\ web'.sent = "stop_recording" =>
                (web.state = "listening" /\ web'.state = "thinking")
         /\ web'.sent = "stop_speaking" =>
                (web.state = "speaking" /\ web'.state = "idle")
         /\ web.state = "thinking" =>
                web' = [web EXCEPT !.taps = @ + 1, !.sent = "none"]
      ]_vars

\* A frame of the server has put the client into thinking, and the tap that
\* followed the one that started the recording sent nothing.
C32_Witness ==
    /\ web.taps = 2
    /\ web.state = "thinking"
    /\ web.userText = "hi"
    /\ web.sent = "none"
    /\ web.sockets[Ws(web)] = OPEN

\* The sockets of the web client that are connecting or open.
C33_Live == {s \in 1..Len(web.sockets) : web.sockets[s] <= OPEN}

\* C33: the web client has at most one socket connecting or open and at most
\* one reconnect timer running, and after the close of a socket it opens the
\* next one.
C33_OneSocketAndReconnects ==
    /\ [](Cardinality(C33_Live) <= 1 /\ web.timers <= 1)
    /\ \A n \in WebSockets :
           (Len(web.sockets) = n /\ web.sockets[n] = CLOSED) ~> (Len(web.sockets) > n)

\* The first socket has closed and the second, which the timer opened, is open.
C33_Witness ==
    /\ Len(web.sockets) = 2
    /\ web.sockets = <<CLOSED, OPEN>>
    /\ web.timers = 0

\* C34: a request of wsRequest is settled once, by the response with its own
\* identifier or by its 60 s timer; it has an entry in pending exactly while it
\* is not settled, and once its 60 s are over it has settled.
C34_RequestsSettleOnce ==
    \A n \in ReqIds :
        LET r == transport.requests[n]
        IN /\ transport.pending[n] \in {0, n}
           /\ r.method = "chat.send" =>
                 /\ r.settles <= 1
                 /\ (r.state = "pending") = (transport.pending[n] = n)
                 /\ (r.state = "pending") = (r.settles = 0)
                 /\ r.by \in {<<"none">>, <<"timeout">>, NextId(n)}
                 /\ r.by = <<"timeout">> => r.state = "rejected"
                 /\ ~r.timer => r.state # "pending"

\* The second request was resolved by its response and the third rejected by
\* its timer, both timers being over.
C34_Witness ==
    /\ transport.requests[2].method = "chat.send"
    /\ transport.requests[2].state = "resolved"
    /\ transport.requests[2].by = NextId(2)
    /\ ~transport.requests[2].timer
    /\ transport.requests[3].method = "chat.send"
    /\ transport.requests[3].state = "rejected"
    /\ transport.requests[3].by = <<"timeout">>

\* C35: the gateway client has at most one socket connecting or open, and at
\* most one reconnect timer running.
C35_OneLiveSocket ==
    /\ Cardinality(LiveSockets(transport)) <= 1
    /\ transport.reconnects <= 1

\* C36: once the client has typed out what it received, the bot text it shows,
\* when it shows one, is the concatenation of the chunk texts of the turn the
\* server is in, and holds nothing of an earlier turn.
C36_BotTextIsTurnText ==
    (web.turn.chunks # <<>> /\ ~web.streamInterval /\ web.clearTimers = 0
       /\ web.botText # <<>>) =>
        web.botText = web.turn.chunks

\* C37: while the client shows the error state, the text it displays is the
\* message of the error frame, and a 4 s timer that returns it to idle is
\* running.
C37_ErrorShown ==
    web.state = "error" =>
        (web.statusText = web.lastError /\ web.errorTimers > 0)

====
